---- MODULE Spec2Model ----
(***************************************************************************)
(* Model of the Open Trust client runtime (package otgo): the renewal      *)
(* cache (cache.Get, resolve, domainRenewer, serviceRenewer) and the       *)
(* OTClient facade that composes them.  Callers are goroutines; every      *)
(* caller owns a call stack of frames, one frame per function that is      *)
(* executing, and one action moves the top frame by one step.             *)
(*                                                                         *)
(* Time is counted in units of ten seconds.                                *)
(***************************************************************************)
EXTENDS Integers, Sequences, FiniteSets, TLC

\* ---------------------------------------------------------------- bounds
NumProcs == 2
MaxCalls == 3
MaxTicks == 1
MaxUrls == 2
MaxQuarters == 2
MaxKeys == 3
MaxSegments == 5

\* ------------------------------------------------------------- constants
\* A duration of s seconds in clock units (exact for multiples of ten).
Seconds(s) == s \div 10
RenewWindow == Seconds(10)
Hour == Seconds(3600)
Forever == Hour * 24 * 365 * 99
\* Clock advances the model takes in one step: within an OTVID's lifetime,
\* and past a domain configuration's lifetime.
ShortStep == Seconds(10)
LongStep == Hour + Seconds(10)
\* keysRefreshHint values (seconds) the authority advertises: none, less
\* than an hour, more than an hour.
Hints == {0, 1800, 7200}
\* Lifetimes (seconds) of the OTVIDs the authority issues.
TokenTTLs == {0, 10}

Procs == 1..NumProcs

\* OTIDs of the client: its trust domain, its subject, one audience and a
\* foreign subject.
TdOTID == "otid:td"
Sub == "otid:td:app:s"
AudA == "otid:td:svc:a"
Other == "otid:td:app:x"

nullhost == "nullhost"
Endpoints == {"http://e1", "http://e2"}
AdvLists == {{}, {"http://e1"}, Endpoints}

\* Keysets are named; NilKs is the nil *JWKSet.
NilKs == "nil"
DiscKeys == {"K1"}
StaticKeys == {"K0"}
\* Private keysets of the client: one whose signing key is private, one
\* whose chosen key is public.
PrivKeysets == {"priv", "pub"}

DomKeys == {TdOTID}
SvcKeys == {TdOTID, AudA}
\* the audiences the application asks for
Auds == {AudA}
Entries == {<<"dom", k>> : k \in DomKeys} \cup {<<"svc", k>> : k \in SvcKeys}
Caches == {"dom", "svc"}

\* An OTVID: the claims of a parsed token.  n is the serial number of the
\* /sign request that produced it (0 for tokens obtained out of band).
NilVid == [id |-> "", iss |-> "", aud |-> "", exp |-> 0, rid |-> "", key |-> "", n |-> 0]
\* A token is the serialized form; wf says that it is a well-formed JWT of
\* legal length whose three OTIDs validate.
EmptyToken == [wf |-> FALSE, id |-> "", iss |-> "", aud |-> "", exp |-> 0, rid |-> "", key |-> "", n |-> 0]

MkToken(id, aud, exp, n) ==
  [wf |-> TRUE, id |-> id, iss |-> TdOTID, aud |-> aud, exp |-> exp, rid |-> "", key |-> "K1", n |-> n]

VARIABLES
  now,      \* the clock
  ticks,    \* number of clock advances so far
  ncalls,   \* number of API calls started so far
  privKs,   \* OTClient.ks
  dom,      \* domainRenewer fields, per key
  svc,      \* serviceRenewer fields, per key
  svcMap,   \* keys present in serviceCache.kv
  wl,       \* per entry: the holder of the write lock, 0 when free
  rl,       \* per entry: the holders of the read lock
  mapW,     \* per cache: the holder of cache.mu, 0 when free
  mapR,     \* per cache: the read-holders of cache.mu
  stack,    \* per caller: its call stack, top frame last
  ret,      \* per caller: the result of the call that returned last
  call,     \* per caller: the API call it runs or ran last
  signReqs, \* per audience: number of POST /sign requests the authority saw
  discReqs, \* number of GET requests for the well-known configuration
  ghost,    \* history: what an observer of the run has recorded so far
  sel,      \* one run of SelectEndpoints: its candidates, goroutines, channel
  otv,      \* one OTVID object, the clock in quarter seconds, the last call on it
  oid,      \* one call that makes an OTID: its arguments and its result
  rc        \* the OTClient that refreshes its configuration, its caller and its loop

\* the state of the client, and the state outside it
client == <<now, ticks, ncalls, privKs, dom, svc, svcMap, wl, rl, mapW, mapR,
            stack, ret, call, signReqs, discReqs, ghost>>
aux == <<sel, otv, oid, rc>>
\* everything but one of the variables outside the client
notSel == <<client, otv, oid, rc>>
notOtv == <<client, sel, oid, rc>>
notOid == <<client, sel, otv, rc>>
notRc == <<client, sel, otv, oid>>
vars == <<client, aux>>

\* ------------------------------------------------------------- frames
NoVal == [endpoint |-> ""]
Frame(fn, pc, ent) ==
  [fn |-> fn, pc |-> pc, ent |-> ent, v |-> NoVal, E |-> {}, tok |-> EmptyToken,
   ks |-> NilKs, h |-> 0]

NoEnt == <<"", "">>
Ok(v) == [err |-> FALSE, v |-> v]
Err == [err |-> TRUE, v |-> NoVal]

Idle(p) == stack[p] = <<>>
Top(p) == stack[p][Len(stack[p])]
At(p, fn, pc) == ~Idle(p) /\ Top(p).fn = fn /\ Top(p).pc = pc

SetTop(p, f) == stack' = [stack EXCEPT ![p] = [@ EXCEPT ![Len(@)] = f]]
Push(p, f, g) == stack' = [stack EXCEPT ![p] = Append([@ EXCEPT ![Len(@)] = f], g)]
Pop(p, r) ==
  /\ stack' = [stack EXCEPT ![p] = SubSeq(@, 1, Len(@) - 1)]
  /\ ret' = [ret EXCEPT ![p] = r]
\* the caller has consumed the callee's result
Took(p) == ret' = [ret EXCEPT ![p] = [err |-> FALSE, v |-> [endpoint |-> ""]]]

\* ------------------------------------------------------------ pure code
\* OTVID.ShouldRenew
ShouldRenew(vid, t) == t + RenewWindow > vid.exp

\* OTVID.MaybeRevoked
MaybeRevoked(vid) == vid.rid # ""

\* stringsHas that finds every string in a list that is not empty
stringsHas_nonEmpty(ss, s) == ss # {}

\* stringsHas
stringsHas(ss, s) == s \in ss

\* ParseOTVIDInsecure: the OTVID of a well-formed token, an error otherwise.
ParseOTVIDInsecure(tok) ==
  IF tok.wf
    THEN Ok([id |-> tok.id, iss |-> tok.iss, aud |-> tok.aud, exp |-> tok.exp,
             rid |-> tok.rid, key |-> tok.key, n |-> tok.n])
    ELSE [err |-> TRUE, v |-> NilVid]

\* OTVID.Token
Token(vid) ==
  [wf |-> TRUE, id |-> vid.id, iss |-> vid.iss, aud |-> vid.aud, exp |-> vid.exp,
   rid |-> vid.rid, key |-> vid.key, n |-> vid.n]

\* LookupSigningKey on OTClient.ks
LookupSigningKey(ks) == IF ks = "priv" THEN Ok(NoVal) ELSE Err

\* renewer.value on the entry e of the caches d (domain) and s (service)
valueOf(d, s, e) ==
  IF e[1] = "dom"
    THEN [otid |-> e[2], ks |-> d[e[2]].ks, endpoint |-> d[e[2]].endpoint]
    ELSE [vid |-> s[e[2]].vid, endpoint |-> s[e[2]].endpoint]

value(e) == valueOf(dom, svc, e)

\* shouldRenew that looks at the expiry only
shouldRenew_expiryOnly(e) ==
  IF e[1] = "dom"
    THEN now > dom[e[2]].expiresAt
    ELSE ShouldRenew(svc[e[2]].vid, now)

\* renewer.shouldRenew
shouldRenew(e) ==
  IF e[1] = "dom"
    THEN dom[e[2]].endpoint = "" \/ dom[e[2]].ks = NilKs \/ now > dom[e[2]].expiresAt
    ELSE svc[e[2]].endpoint = "" \/ svc[e[2]].vid = NilVid \/ ShouldRenew(svc[e[2]].vid, now)

\* ------------------------------------------------------ OTVID, in detail
\* An OTVID object with its Claims map and the serialized token: the JWT
\* claims, the key that signed and the length of the compact form.  In
\* this part a time is a number of quarter seconds, so that an instant can
\* fall between two whole seconds.
otvidMaxSize == 2048
Sec(s) == s * 4
\* time.Time.Truncate(time.Second) and time.Time.Unix()
Truncate(t) == (t \div Sec(1)) * Sec(1)
Unix(t) == t \div Sec(1)
\* the zero time.Time, long before the epoch
ZeroTime == Sec(-1000)
\* the instant the clock of this part starts at
T0 == Sec(100)

\* OTID.Validate and ParseOTID: the zero OTID prints as "" and is invalid
ValidOTIDs == {TdOTID, Sub, AudA, Other}
otidValidate(id) == id \in ValidOTIDs
ParseOTID(s) == [err |-> s \notin ValidOTIDs, id |-> IF s \in ValidOTIDs THEN s ELSE ""]

\* Maps from claim names to values.  A value is a string, a time, a list
\* of strings ("aud"), NonString for a JSON value that is not a string,
\* or for the claim "pad" the number of bytes of a string of that length.
NoClaims == [n \in {} |-> ""]
NonString == "#number"
\* bytes of the compact serialization of a token that carries only the
\* reserved claims
BaseLen == 300
ClaimMaps ==
  { NoClaims,
    "rid" :> "r9",
    "rid" :> NonString,
    ("sub" :> Other) @@ ("iss" :> Other) @@ ("aud" :> <<Other>>) @@ ("exp" :> Sec(9000)) @@ ("iat" :> 0),
    "pad" :> (otvidMaxSize - BaseLen),
    "pad" :> (otvidMaxSize - BaseLen + 1) }

\* Signing keys: private keys with algorithm and key ID, and one without
\* a key ID.  publicOf(k) names the public key of k; a key set is nil or a
\* set of public keys.
SigningKeys == {"k1", "k2"}
NoKidKey == "k0"
publicOf(k) == "pub:" \o k
NilKeySet == [nil |-> TRUE, keys |-> {}]
KeySet(pks) == [nil |-> FALSE, keys |-> pks]
validateKeys(key) == key # NoKidKey

\* A serialized token: "" is NoToken; sig is the key that signed, "" for
\* a string that is not a JWS.
NoToken == [len |-> 0, kid |-> "", sig |-> "", claims |-> NoClaims]
Garbage(n) == [NoToken EXCEPT !.len = n]
TokenLen(claims) == BaseLen + (IF "pad" \in DOMAIN claims THEN claims["pad"] ELSE 0)

\* the OTVID struct
OTVID(id, iss, aud, exp, rid, claims) ==
  [ID |-> id, Issuer |-> iss, Audience |-> aud, Expiry |-> exp, IssuedAt |-> ZeroTime,
   ReleaseID |-> rid, Claims |-> claims, token |-> NoToken]
NilOTVID == OTVID("", "", "", ZeroTime, "", NoClaims)

\* jwt NumericDate: a time is serialized as whole seconds
NumericDate(t) == Truncate(t)

\* OTVID.ToJWT: every entry of Claims is set first, then the reserved
\* claims over them; rid only when ReleaseID is not empty.
otvidToJWT(o) ==
  (IF o.ReleaseID # "" THEN "rid" :> o.ReleaseID ELSE NoClaims)
  @@ ("sub" :> o.ID) @@ ("iss" :> o.Issuer) @@ ("aud" :> <<o.Audience>>)
  @@ ("iat" :> NumericDate(o.IssuedAt)) @@ ("exp" :> NumericDate(o.Expiry))
  @@ o.Claims

\* OTVID.Validate
otvidValidate(o) == otidValidate(o.ID) /\ otidValidate(o.Issuer) /\ otidValidate(o.Audience)

\* OTVID.verifyClaims at time t; the result is the error, "" for none
otvidVerifyClaims(o, issuer, audience, t) ==
  IF o.Issuer # issuer THEN "issuer"
  ELSE IF o.Audience # audience THEN "audience"
  ELSE IF ~(Truncate(t) < o.Expiry) THEN "expiration"
  ELSE ""

\* jwt.ParseString with and without jwt.WithKeySet: the JWS must be well
\* formed and, with a key set, signed by the key the set holds under the
\* token's kid.
jwtParseVerify_anyKey(token, ks) == token.sig # ""
jwtParseVerify(token, ks) == token.sig # "" /\ publicOf(token.kid) \in ks.keys /\ token.sig = token.kid
jwtParse(token) == token.sig # ""

\* OTVID.Verify at time t; the result is the stage that failed, "" for none
otvidVerify(o, ks, issuer, audience, t) ==
  IF ~otvidValidate(o) THEN "validate"
  ELSE IF otvidVerifyClaims(o, issuer, audience, t) # "" THEN otvidVerifyClaims(o, issuer, audience, t)
  ELSE IF ks.nil THEN "keys"
  ELSE IF ~jwtParseVerify(o.token, ks) THEN "signature"
  ELSE ""

\* OTVID.Token
otvidToken(o) == o.token

\* OTVID.ShouldRenew at time t
otvidShouldRenew(o, t) == t + Sec(10) > o.Expiry

\* OTVID.Sign at time t: the object after the call, and the error
otvidSign(o, key, t) ==
  IF ~validateKeys(key) THEN [o |-> o, err |-> "key", token |-> NoToken]
  ELSE
    LET o1 == [o EXCEPT !.IssuedAt = Truncate(t),
                        !.Expiry = IF Unix(o.Expiry) <= 0 THEN Truncate(t) + Sec(600) ELSE @]
        claims == otvidToJWT(o1)
        s == [len |-> TokenLen(claims), kid |-> key, sig |-> key, claims |-> claims]
        o2 == [o1 EXCEPT !.token = s]
    IN IF s.len > otvidMaxSize
         THEN [o |-> o2, err |-> "length", token |-> NoToken]
         ELSE [o |-> o2, err |-> "", token |-> s]

\* FromJWT
otvidFromJWT(token) ==
  LET c == token.claims
      sub == ParseOTID(c["sub"])
      iss == ParseOTID(c["iss"])
      aud == IF Len(c["aud"]) > 0 THEN ParseOTID(c["aud"][1]) ELSE [err |-> FALSE, id |-> ""]
      rid == IF "rid" \in DOMAIN c THEN c["rid"] ELSE ""
      reserved == {"sub", "iss", "aud", "iat", "exp"}
      vid == [ID |-> sub.id, Issuer |-> iss.id, Audience |-> aud.id, Expiry |-> c["exp"],
              IssuedAt |-> c["iat"], ReleaseID |-> rid,
              Claims |-> [n \in DOMAIN c \ reserved |-> c[n]], token |-> token]
  IN IF sub.err \/ iss.err \/ aud.err \/ rid = NonString \/ ~otvidValidate(vid)
       THEN [err |-> "claims", vid |-> NilOTVID]
       ELSE [err |-> "", vid |-> vid]

otvidParse_noMax(token, ks, issuer, audience, t) ==
  IF token.len < 64 THEN [err |-> "length", vid |-> NilOTVID]
  ELSE IF ks.nil THEN [err |-> "keys", vid |-> NilOTVID]
  ELSE IF ~jwtParseVerify(token, ks) THEN [err |-> "signature", vid |-> NilOTVID]
  ELSE IF otvidFromJWT(token).err # "" THEN otvidFromJWT(token)
  ELSE IF otvidVerifyClaims(otvidFromJWT(token).vid, issuer, audience, t) # ""
    THEN [err |-> otvidVerifyClaims(otvidFromJWT(token).vid, issuer, audience, t), vid |-> NilOTVID]
  ELSE otvidFromJWT(token)
\* ParseOTVID at time t: the stage that failed, "" for none, and the OTVID
otvidParse(token, ks, issuer, audience, t) ==
  IF token.len < 64 \/ token.len > otvidMaxSize THEN [err |-> "length", vid |-> NilOTVID]
  ELSE IF ks.nil THEN [err |-> "keys", vid |-> NilOTVID]
  ELSE IF ~jwtParseVerify(token, ks) THEN [err |-> "signature", vid |-> NilOTVID]
  ELSE IF otvidFromJWT(token).err # "" THEN otvidFromJWT(token)
  ELSE IF otvidVerifyClaims(otvidFromJWT(token).vid, issuer, audience, t) # ""
    THEN [err |-> otvidVerifyClaims(otvidFromJWT(token).vid, issuer, audience, t), vid |-> NilOTVID]
  ELSE otvidFromJWT(token)

\* ParseOTVIDInsecure
otvidParseInsecure(token) ==
  IF token.len < 64 \/ token.len > otvidMaxSize THEN [err |-> "length", vid |-> NilOTVID]
  ELSE IF ~jwtParse(token) THEN [err |-> "signature", vid |-> NilOTVID]
  ELSE otvidFromJWT(token)

\* LookupSigningKey on the private key set of the client, a list of keys
\* or nil: the last of the first two keys, which must be a private key
IsPrivate(key) == key \in SigningKeys \cup {NoKidKey}
NilKeyList == [nil |-> TRUE, keys |-> <<>>]
KeyList(keys) == [nil |-> FALSE, keys |-> keys]
LookupSigningKeyIn_first(ks) ==
  IF ks.nil \/ Len(ks.keys) = 0 THEN [err |-> "no private keys", key |-> ""]
  ELSE IF IsPrivate(ks.keys[1]) THEN [err |-> "", key |-> ks.keys[1]]
  ELSE [err |-> "invalid key type", key |-> ""]
LookupSigningKeyIn(ks) ==
  IF ks.nil \/ Len(ks.keys) = 0 THEN [err |-> "no private keys", key |-> ""]
  ELSE LET key == IF Len(ks.keys) > 1 THEN ks.keys[2] ELSE ks.keys[1] IN
       IF IsPrivate(key) THEN [err |-> "", key |-> key]
       ELSE [err |-> "invalid key type", key |-> ""]

\* Keys of a key set: besides the private keys and their public keys, a
\* symmetric key.  rawPublic(k) is what key.PublicKey() returns, the public
\* key without the parameters alg, kid, use and key_ops; publicOf(k) is that
\* key after copyParams.
SymKey == "oct1"
rawPublic(k) == "raw:" \o k
PrivateKeys == SigningKeys \cup {NoKidKey}
IsPublic(key) == \E k \in PrivateKeys : key \in {publicOf(k), rawPublic(k)}
\* Key.KeyID()
KeyID(key) ==
  IF key \in SigningKeys \/ key = SymKey THEN key
  ELSE IF \E k \in SigningKeys : key = publicOf(k) THEN CHOOSE k \in SigningKeys : key = publicOf(k)
  ELSE ""

\* ToPublicKey
ToPublicKey_noCopy(key) ==
  IF IsPrivate(key) THEN [err |-> FALSE, key |-> rawPublic(key)]
  ELSE IF IsPublic(key) THEN [err |-> FALSE, key |-> key]
  ELSE [err |-> TRUE, key |-> ""]
ToPublicKey(key) ==
  IF IsPrivate(key) THEN [err |-> FALSE, key |-> publicOf(key)]
  ELSE IF IsPublic(key) THEN [err |-> FALSE, key |-> key]
  ELSE [err |-> TRUE, key |-> ""]

\* LookupPublicKeys: the public keys of the keys ToPublicKey converts, in
\* order; nil gives the empty set
LookupPublicKeys(ks) ==
  LET converted == SelectSeq(ks.keys, LAMBDA key : ~ToPublicKey(key).err) IN
  KeyList([i \in 1..Len(converted) |-> ToPublicKey(converted[i]).key])

\* the key sets handed to LookupSigningKey and LookupPublicKeys
KeyPool == {"k1", "k2", NoKidKey, publicOf("k1"), SymKey}
AllKeyLists == {NilKeyList} \cup {KeyList(keys) : keys \in UNION {[1..n -> KeyPool] : n \in 0..MaxKeys}}

\* OTClient.SignSelf at time t, of the client with subject Sub in the trust
\* domain TdOTID whose private key set is ks
otvidSignSelf_audSubject(ks, t) ==
  IF LookupSigningKeyIn(ks).err # ""
    THEN [o |-> NilOTVID, err |-> LookupSigningKeyIn(ks).err, token |-> NoToken]
    ELSE otvidSign(OTVID(Sub, Sub, Sub, t + Sec(600), "", NoClaims), LookupSigningKeyIn(ks).key, t)
otvidSignSelf(ks, t) ==
  IF LookupSigningKeyIn(ks).err # ""
    THEN [o |-> NilOTVID, err |-> LookupSigningKeyIn(ks).err, token |-> NoToken]
    ELSE otvidSign(OTVID(Sub, Sub, TdOTID, t + Sec(600), "", NoClaims), LookupSigningKeyIn(ks).key, t)

\* the OTVIDs the application builds, and the arguments it passes
Expiries == {ZeroTime, T0, T0 + 1, T0 + Sec(10), T0 + Sec(3600)}
OTVIDs ==
  {OTVID(Sub, TdOTID, AudA, exp, rid, claims) :
     exp \in Expiries, rid \in {"", "r1"}, claims \in ClaimMaps}
  \cup {OTVID("", TdOTID, AudA, exp, "", NoClaims) : exp \in {ZeroTime, T0 + Sec(3600)}}
KeySets == {NilKeySet, KeySet({publicOf("k1")}), KeySet({publicOf(k) : k \in SigningKeys})}
KeyLists ==
  {NilKeyList} \cup
  {KeyList(keys) : keys \in {<<>>, <<"k1">>, <<publicOf("k1")>>, <<NoKidKey>>, <<"k1", "k2">>,
                             <<"k2", publicOf("k1")>>}}
Issuers == {TdOTID, Other}
Audiences == {AudA, Other}
\* what the last call was given and what it returned
NoRes ==
  [op |-> "", key |-> "", priv |-> NilKeyList, keys |-> NilKeyList, token |-> NoToken, ks |-> NilKeySet, issuer |-> "", audience |-> "",
   t |-> T0, before |-> NilOTVID, err |-> "", out |-> NoToken, vid |-> NilOTVID, renew |-> FALSE]
NoOtv == [o |-> NilOTVID, t |-> T0, res |-> NoRes]

\* ------------------------------------------------------- OTID, in detail
\* A string is the sequence of its runes.  Every rune is one byte long but
\* NonASCII, which stands for a rune of three bytes.
otidMaxSize == 512
NonASCII == "U+263A"
Lower ==
  {"a", "b", "c", "d", "e", "f", "g", "h", "i", "j", "k", "l", "m", "n", "o", "p", "q", "r", "s", "t",
   "u", "v", "w", "x", "y", "z"}
Digits == {"0", "1", "2", "3", "4", "5", "6", "7", "8", "9"}
\* len(s)
ByteLen(s) == Len(s) + 2 * Cardinality({i \in DOMAIN s : s[i] = NonASCII})
\* strings.Repeat("a", n)
Repeat(n) == [i \in 1..n |-> "a"]

\* strings.Split(s, ":"): the segments between the separators, in order
Separators(s) == {i \in DOMAIN s : s[i] = ":"}
SeparatorAt(s, k) ==
  IF k = 0 THEN 0
  ELSE IF k > Cardinality(Separators(s)) THEN Len(s) + 1
  ELSE CHOOSE i \in Separators(s) : Cardinality({j \in Separators(s) : j < i}) = k - 1
Split(s) ==
  [k \in 1..(Cardinality(Separators(s)) + 1) |->
     SubSeq(s, SeparatorAt(s, k - 1) + 1, SeparatorAt(s, k) - 1)]

\* checkRunes: TRUE when the string holds only lower-case letters, digits
\* and '.', '-', '_', the latter three not at its start
checkRunes_anyStart(s) ==
  \A i \in DOMAIN s : s[i] \in Lower \cup Digits \cup {".", "-", "_"}
checkRunes(s) ==
  \A i \in DOMAIN s :
    \/ s[i] \in Lower \cup Digits
    \/ s[i] \in {".", "-", "_"} /\ i # 1

\* TrustDomain.Validate
TrustDomain_Validate(td) == td # <<>> /\ checkRunes(td)

\* OTID.build: the string of the OTID
OTID_build_always(td, subjectType, subjectID) ==
  <<"o", "t", "i", "d", ":">> \o td \o <<":">> \o subjectType \o <<":">> \o subjectID
OTID_build(td, subjectType, subjectID) ==
  <<"o", "t", "i", "d", ":">> \o td
    \o (IF subjectType # <<>> THEN <<":">> \o subjectType \o <<":">> \o subjectID ELSE <<>>)

\* the OTID struct; OTID{} is the zero value
OTID(td, subjectType, subjectID) ==
  [trustDomain |-> td, subjectType |-> subjectType, subjectID |-> subjectID,
   otid |-> OTID_build(td, subjectType, subjectID)]
ZeroOTID == [trustDomain |-> <<>>, subjectType |-> <<>>, subjectID |-> <<>>, otid |-> <<>>]

\* TrustDomain.OTID and TrustDomain.NewOTID
TrustDomain_OTID(td) == OTID(td, <<>>, <<>>)
TrustDomain_NewOTID(td, subjectType, subjectID) == OTID(td, subjectType, subjectID)

\* OTID.validate: TRUE when the OTID is valid
OTID_validate_typeOnly(id) ==
  /\ TrustDomain_Validate(id.trustDomain)
  /\ id.subjectType # <<>> =>
       /\ checkRunes(id.subjectType)
       /\ id.subjectID # <<>> /\ checkRunes(id.subjectID)
  /\ ByteLen(id.otid) <= otidMaxSize
OTID_validate_noMax(id) ==
  /\ TrustDomain_Validate(id.trustDomain)
  /\ id.subjectType # <<>> \/ id.subjectID # <<>> =>
       /\ id.subjectType # <<>> /\ checkRunes(id.subjectType)
       /\ id.subjectID # <<>> /\ checkRunes(id.subjectID)
OTID_validate(id) ==
  /\ TrustDomain_Validate(id.trustDomain)
  /\ id.subjectType # <<>> \/ id.subjectID # <<>> =>
       /\ id.subjectType # <<>> /\ checkRunes(id.subjectType)
       /\ id.subjectID # <<>> /\ checkRunes(id.subjectID)
  /\ ByteLen(id.otid) <= otidMaxSize

\* OTID.String and OTID.Equal
OTID_String(id) == id.otid
OTID_Equal(id, another) == id.otid = another.otid

\* NewOTID(trustDomain, subject...)
NewOTID(td, subject) ==
  IF Len(subject) \notin {0, 2} THEN [err |-> TRUE, id |-> ZeroOTID]
  ELSE IF Len(subject) = 2 /\ (subject[1] = <<>> \/ subject[2] = <<>>) THEN [err |-> TRUE, id |-> ZeroOTID]
  ELSE LET id == IF Len(subject) = 2 THEN OTID(td, subject[1], subject[2]) ELSE OTID(td, <<>>, <<>>) IN
       IF OTID_validate(id) THEN [err |-> FALSE, id |-> id] ELSE [err |-> TRUE, id |-> ZeroOTID]

\* ParseOTID
ParseOTIDString(s) ==
  LET ss == Split(s) IN
  IF Len(ss) < 2 THEN [err |-> TRUE, id |-> ZeroOTID]
  ELSE IF ss[1] # <<"o", "t", "i", "d">> THEN [err |-> TRUE, id |-> ZeroOTID]
  ELSE NewOTID(ss[2], SubSeq(ss, 3, Len(ss)))

\* the strings and segments handed to the OTID functions
RECURSIVE Join(_)
Join(ss) == IF ss = <<>> THEN <<>> ELSE IF Len(ss) = 1 THEN ss[1] ELSE ss[1] \o <<":">> \o Join(Tail(ss))
localhost == <<"l", "o", "c", "a", "l", "h", "o", "s", "t">>
Schemes == {<<"o", "t", "i", "d">>, <<"o", "t", "i">>, <<"o", "t", "i", "D">>, <<>>}
SegPool ==
  {<<>>, localhost, <<"a", "p", "p">>, <<"F", "o", "o">>, <<".", "f", "o", "o">>,
   <<"a", ".", "b", "-", "1", "_">>, <<"u", NonASCII>>}
TdPool == SegPool \cup {<<" ">>, <<"*", ".", "x">>, <<"-", "x">>, <<"_", "x">>}
SegLists(n) == UNION {[1..k -> SegPool] : k \in 0..n}
\* subject IDs that bring otid:localhost:user:<id> to 512 and 513 bytes, and
\* the components to 1013, 1016 and 1024 bytes; trust domains that bring
\* otid:<td> to 512 and 513 bytes
user == <<"u", "s", "e", "r">>
LongIDs == {Repeat(n) : n \in {492, 493, 1000, 1003, 1011}}
LongTds == {Repeat(n) : n \in {507, 508}}
NoOid ==
  [op |-> "", s |-> <<>>, td |-> <<>>, subject |-> <<>>, done |-> FALSE, err |-> FALSE,
   id |-> ZeroOTID, valid |-> FALSE, parsed |-> FALSE, back |-> [err |-> FALSE, id |-> ZeroOTID],
   compared |-> FALSE, another |-> ZeroOTID, equal |-> FALSE]
\* the OTIDs an OTID is compared with
EqualPool ==
  {TrustDomain_OTID(td) : td \in {localhost, <<"a", "p", "p">>}}
    \cup {TrustDomain_NewOTID(localhost, t, i) : t, i \in {<<>>, localhost, <<"a", "p", "p">>}}
OidInputs ==
  {[NoOid EXCEPT !.op = "ParseOTID", !.s = s] :
     s \in {Join(<<scheme>> \o ss) : scheme \in Schemes, ss \in SegLists(MaxSegments - 1)}
           \cup {<<>>}
           \cup {OTID_build(td, <<>>, <<>>) : td \in TdPool \cup LongTds}
           \cup {OTID_build(localhost, user, id) : id \in LongIDs}}
  \cup {[NoOid EXCEPT !.op = "NewOTID", !.td = td, !.subject = ss] : td \in TdPool, ss \in SegLists(3)}
  \cup {[NoOid EXCEPT !.op = "NewOTID", !.td = td] : td \in LongTds}
  \cup {[NoOid EXCEPT !.op = "NewOTID", !.td = localhost, !.subject = <<user, id>>] : id \in LongIDs}
  \cup {[NoOid EXCEPT !.op = "TrustDomain.NewOTID", !.td = td, !.subject = <<t, i>>] :
          td \in TdPool, t \in SegPool \cup {user}, i \in SegPool}
  \cup {[NoOid EXCEPT !.op = "TrustDomain.NewOTID", !.td = localhost, !.subject = <<user, id>>] :
          id \in LongIDs}
  \cup {[NoOid EXCEPT !.op = "TrustDomain.OTID", !.td = td] : td \in TdPool \cup LongTds}

\* ------------------------------------------- the OTClient with RefreshConfig
\* NewOTClient sets refresh to 3600 seconds
DefaultRefresh == 3600
\* what a read that races with a write may return besides the old and the
\* new value
Torn == "torn"
Threads == {"fg", "loop"}
NoConfig == [keys |-> "none", hint |-> 0, eps |-> <<>>]
\* pc: the statement the goroutine is at; op: the exported method that runs;
\* res, sp, err: the locals of LoadConfig; seen: the service endpoint that
\* the check at the start of Sign, Get or Post has read
NoThread == [pc |-> "idle", op |-> "", res |-> NoConfig, sp |-> "", err |-> "", seen |-> ""]
\* the responses of the configuration URL: a full one, one without keys and
\* refresh hint, one without service endpoints, one whose keys do not parse
\* and one of another trust domain
ConfigResponses ==
  {[otid |-> TRUE, keys |-> "ks2", hint |-> 1800, eps |-> <<"e1", "e2">>],
   [otid |-> TRUE, keys |-> "none", hint |-> 0, eps |-> <<"e1">>],
   [otid |-> TRUE, keys |-> "ks2", hint |-> 1800, eps |-> <<>>],
   [otid |-> TRUE, keys |-> "bad", hint |-> 0, eps |-> <<"e1">>],
   [otid |-> FALSE, keys |-> "ks2", hint |-> 1800, eps |-> <<"e1">>]}
NoRc ==
  [cancelled |-> FALSE, onError |-> FALSE, cached |-> FALSE,
   serviceEndpoint |-> "", domainKs |-> "nil", refresh |-> DefaultRefresh, period |-> 0,
   writer |-> "", reading |-> FALSE, ticked |-> FALSE, delivered |-> "",
   th |-> [t \in Threads |-> IF t = "loop" THEN [NoThread EXCEPT !.pc = "none"] ELSE NoThread]]

\* the body of LoadConfig after a response r has arrived
LoadConfig_parsed(f, r) ==
  IF ~r.otid THEN [f EXCEPT !.pc = "LoadConfig_return", !.err = "otid"]
  ELSE IF r.keys = "bad" THEN [f EXCEPT !.pc = "LoadConfig_return", !.err = "keys"]
  ELSE [f EXCEPT !.pc = "LoadConfig_SelectEndpoints",
                 !.res = [keys |-> r.keys, hint |-> r.hint, eps |-> r.eps]]
\* the fields LoadConfig assigns while it holds mu
LoadConfig_assign(c, f) ==
  [c EXCEPT !.serviceEndpoint = f.sp,
            !.domainKs = IF f.res.keys # "none" THEN f.res.keys ELSE @,
            !.refresh = IF f.res.hint > 0 THEN f.res.hint ELSE @]
\* waitAndLoadConfig after LoadConfig has returned err
afterRefresh_abort(err, onError) ==
  IF err = "" THEN "NewTicker" ELSE IF onError THEN "onError" ELSE "done"
afterRefresh(err, onError) ==
  IF err # "" /\ onError THEN "onError" ELSE "NewTicker"

\* ------------------------------------------------------------------ Init
InitClient ==
  /\ now = 0
  /\ ticks = 0
  /\ ncalls = 0
  /\ privKs = NilKs
  /\ dom = [k \in DomKeys |-> [ks |-> NilKs, endpoint |-> "", expiresAt |-> 0]]
  /\ svc = [k \in SvcKeys |-> [vid |-> NilVid, endpoint |-> ""]]
  /\ svcMap = {TdOTID}
  /\ wl = [e \in Entries |-> 0]
  /\ rl = [e \in Entries |-> {}]
  /\ mapW = [c \in Caches |-> 0]
  /\ mapR = [c \in Caches |-> {}]
  /\ stack = [p \in Procs |-> <<>>]
  /\ ret = [p \in Procs |-> Ok(NoVal)]
  /\ call = [p \in Procs |-> [op |-> "none", key |-> "", tok |-> EmptyToken, ep |-> "", ks |-> NilKs,
                               with |-> {}, signs |-> 0, discs |-> 0,
                               seeded |-> [vid |-> NilVid, endpoint |-> ""], static |-> NilKs]]
  /\ signReqs = [k \in SvcKeys |-> 0]
  /\ discReqs = 0
  /\ ghost = [failed |-> FALSE,
              committed |-> [e \in Entries |-> valueOf(dom, svc, e)],
              seeded |-> [vid |-> NilVid, endpoint |-> ""],
              static |-> NilKs,
              made |-> [k \in SvcKeys |-> 0]]

\* A run of SelectEndpoints over the candidates urls.  main: where the
\* caller is; g[k]: where the goroutine of candidate k is; ch: the goroutines
\* blocked in `ch <- url`, in the order they arrived; i: the countdown of
\* goroutines; ctx: the context derived with the 5-second timeout.  What an
\* observer notes: oks, the candidates whose GET succeeded, in order;
\* expired, the timeout or the caller's context has ended the context;
\* early, it did so before any GET had succeeded.
SelRun(urls) ==
  [urls |-> urls, main |-> "start", g |-> [k \in 1..Len(urls) |-> "idle"], ch |-> <<>>,
   i |-> 0, ctx |-> "live", res |-> [err |-> "", url |-> ""],
   oks |-> <<>>, expired |-> FALSE, early |-> FALSE]

\* no run of SelectEndpoints is followed
NoSel == [SelRun(<<>>) EXCEPT !.main = "none"]

Init == InitClient /\ sel = NoSel /\ otv = NoOtv /\ oid = NoOid /\ rc = NoRc

\* --------------------------------------------------------- the observer
\* ghost.failed: some request to the authority or an endpoint, or a
\* self-signature, has failed.  ghost.committed[e]: the snapshot of entry e
\* when the last write to it (a renewal, AddAudience, SetDomainKeys)
\* completed.  ghost.seeded: what the last successful AddAudience stored.
\* ghost.static: the keyset of the last completed SetDomainKeys.
\* ghost.made[k]: how often the service cache's factory was invoked for k.
Failed(b) == ghost' = [ghost EXCEPT !.failed = @ \/ b]
Committed(e, b, v) ==
  ghost' = [ghost EXCEPT !.failed = @ \/ b, !.committed[e] = v]

\* ------------------------------------------------------- the authority
\* Responses to GET <td>/.well-known/open-trust-configuration.
DiscResponses ==
  {[ok |-> FALSE, otid |-> TdOTID, keysok |-> TRUE, ks |-> NilKs, h |-> 0, E |-> {}],
   [ok |-> TRUE, otid |-> Other, keysok |-> TRUE, ks |-> "K1", h |-> 0, E |-> Endpoints],
   [ok |-> TRUE, otid |-> TdOTID, keysok |-> FALSE, ks |-> "K1", h |-> 0, E |-> Endpoints]}
  \cup [ok : {TRUE}, otid : {TdOTID}, keysok : {TRUE}, ks : DiscKeys, h : Hints, E : AdvLists]

\* Responses to POST <authority>/sign for audience a, request number n, at
\* time t: a transport failure, or a decoded SignOutput.  The empty token
\* is what decoding leaves when the envelope carries no result.
SignResponses(a, n, t) ==
  {[ok |-> FALSE, tok |-> EmptyToken, E |-> {}]}
  \cup [ok : {TRUE}, tok : {EmptyToken} \cup {MkToken(Sub, a, t + Seconds(ttl), n) : ttl \in TokenTTLs},
        E : AdvLists]

\* ------------------------------------------------------------ cache.Get
present(c, k) == IF c = "dom" THEN k \in DomKeys ELSE k \in svcMap

Get_RLock(p) ==
  /\ At(p, "Get", "rlock")
  /\ LET c == Top(p).ent[1] IN
       /\ mapW[c] = 0
       /\ mapR' = [mapR EXCEPT ![c] = @ \cup {p}]
  /\ SetTop(p, [Top(p) EXCEPT !.pc = "lookup"])
  /\ UNCHANGED <<now, ticks, ncalls, privKs, dom, svc, svcMap, wl, rl, mapW, ret, call, signReqs, discReqs, ghost>>
  /\ UNCHANGED aux

Get_lookup(p) ==
  /\ At(p, "Get", "lookup")
  /\ LET c == Top(p).ent[1]
         k == Top(p).ent[2] IN
       /\ mapR' = [mapR EXCEPT ![c] = @ \ {p}]
       /\ IF present(c, k)
            THEN Pop(p, Ok(NoVal))
            ELSE SetTop(p, [Top(p) EXCEPT !.pc = "lock"]) /\ UNCHANGED ret
  /\ UNCHANGED <<now, ticks, ncalls, privKs, dom, svc, svcMap, wl, rl, mapW, call, signReqs, discReqs, ghost>>
  /\ UNCHANGED aux

Get_Lock(p) ==
  /\ At(p, "Get", "lock")
  /\ LET c == Top(p).ent[1] IN
       /\ mapW[c] = 0
       /\ mapR[c] = {}
       /\ mapW' = [mapW EXCEPT ![c] = p]
  /\ SetTop(p, [Top(p) EXCEPT !.pc = "create"])
  /\ UNCHANGED <<now, ticks, ncalls, privKs, dom, svc, svcMap, wl, rl, mapR, ret, call, signReqs, discReqs, ghost>>
  /\ UNCHANGED aux

\* cache.Get that returns without releasing the map lock
Get_create_noUnlock(p) ==
  /\ At(p, "Get", "create")
  /\ LET c == Top(p).ent[1]
         k == Top(p).ent[2] IN
       /\ svcMap' = IF c = "svc" THEN svcMap \cup {k} ELSE svcMap
       /\ svc' = IF c = "svc" /\ k \notin svcMap
                   THEN [svc EXCEPT ![k] = [vid |-> NilVid, endpoint |-> ""]]
                   ELSE svc
       /\ ghost' = IF c = "svc" /\ k \notin svcMap THEN [ghost EXCEPT !.made[k] = @ + 1] ELSE ghost
  /\ Pop(p, Ok(NoVal))
  /\ UNCHANGED <<now, ticks, ncalls, privKs, dom, wl, rl, mapW, mapR, call, signReqs, discReqs>>
  /\ UNCHANGED aux

\* cache.Get that invokes the factory without looking the key up again
Get_create_noRecheck(p) ==
  /\ At(p, "Get", "create")
  /\ LET c == Top(p).ent[1]
         k == Top(p).ent[2] IN
       /\ svcMap' = IF c = "svc" THEN svcMap \cup {k} ELSE svcMap
       /\ svc' = IF c = "svc"
                   THEN [svc EXCEPT ![k] = [vid |-> NilVid, endpoint |-> ""]]
                   ELSE svc
       /\ mapW' = [mapW EXCEPT ![c] = 0]
       /\ ghost' = IF c = "svc" THEN [ghost EXCEPT !.made[k] = @ + 1] ELSE ghost
  /\ Pop(p, Ok(NoVal))
  /\ UNCHANGED <<now, ticks, ncalls, privKs, dom, wl, rl, mapR, call, signReqs, discReqs>>
  /\ UNCHANGED aux

Get_create(p) ==
  /\ At(p, "Get", "create")
  /\ LET c == Top(p).ent[1]
         k == Top(p).ent[2] IN
       /\ svcMap' = IF c = "svc" THEN svcMap \cup {k} ELSE svcMap
       /\ svc' = IF c = "svc" /\ k \notin svcMap
                   THEN [svc EXCEPT ![k] = [vid |-> NilVid, endpoint |-> ""]]
                   ELSE svc
       /\ mapW' = [mapW EXCEPT ![c] = 0]
       /\ ghost' = IF c = "svc" /\ k \notin svcMap THEN [ghost EXCEPT !.made[k] = @ + 1] ELSE ghost
  /\ Pop(p, Ok(NoVal))
  /\ UNCHANGED <<now, ticks, ncalls, privKs, dom, wl, rl, mapR, call, signReqs, discReqs>>
  /\ UNCHANGED aux

\* -------------------------------------------------------------- resolve
resolve_RLock(p) ==
  /\ At(p, "resolve", "rlock")
  /\ LET e == Top(p).ent IN
       /\ wl[e] = 0
       /\ rl' = [rl EXCEPT ![e] = @ \cup {p}]
  /\ SetTop(p, [Top(p) EXCEPT !.pc = "rval"])
  /\ UNCHANGED <<now, ticks, ncalls, privKs, dom, svc, svcMap, wl, mapW, mapR, ret, call, signReqs, discReqs, ghost>>
  /\ UNCHANGED aux

resolve_rval(p) ==
  /\ At(p, "resolve", "rval")
  /\ SetTop(p, [Top(p) EXCEPT !.pc = "rchk", !.v = value(Top(p).ent)])
  /\ UNCHANGED <<now, ticks, ncalls, privKs, dom, svc, svcMap, wl, rl, mapW, mapR, ret, call, signReqs, discReqs, ghost>>
  /\ UNCHANGED aux

resolve_rchk(p) ==
  /\ At(p, "resolve", "rchk")
  /\ LET e == Top(p).ent IN
       /\ rl' = [rl EXCEPT ![e] = @ \ {p}]
       /\ IF ~shouldRenew(e)
            THEN Pop(p, Ok(Top(p).v))
            ELSE SetTop(p, [Top(p) EXCEPT !.pc = "lock"]) /\ UNCHANGED ret
  /\ UNCHANGED <<now, ticks, ncalls, privKs, dom, svc, svcMap, wl, mapW, mapR, call, signReqs, discReqs, ghost>>
  /\ UNCHANGED aux

\* resolve with a Lock that does not wait for the writer that holds the entry
resolve_Lock_noWait(p) ==
  /\ At(p, "resolve", "lock")
  /\ LET e == Top(p).ent IN
       /\ rl[e] = {}
       /\ wl' = [wl EXCEPT ![e] = p]
  /\ SetTop(p, [Top(p) EXCEPT !.pc = "wval"])
  /\ UNCHANGED <<now, ticks, ncalls, privKs, dom, svc, svcMap, rl, mapW, mapR, ret, call, signReqs, discReqs, ghost>>
  /\ UNCHANGED aux

resolve_Lock(p) ==
  /\ At(p, "resolve", "lock")
  /\ LET e == Top(p).ent IN
       /\ wl[e] = 0
       /\ rl[e] = {}
       /\ wl' = [wl EXCEPT ![e] = p]
  /\ SetTop(p, [Top(p) EXCEPT !.pc = "wval"])
  /\ UNCHANGED <<now, ticks, ncalls, privKs, dom, svc, svcMap, rl, mapW, mapR, ret, call, signReqs, discReqs, ghost>>
  /\ UNCHANGED aux

resolve_wval(p) ==
  /\ At(p, "resolve", "wval")
  /\ SetTop(p, [Top(p) EXCEPT !.pc = "wchk", !.v = value(Top(p).ent)])
  /\ UNCHANGED <<now, ticks, ncalls, privKs, dom, svc, svcMap, wl, rl, mapW, mapR, ret, call, signReqs, discReqs, ghost>>
  /\ UNCHANGED aux

renewFn(e) == IF e[1] = "dom" THEN "domainRenew" ELSE "serviceRenew"

\* resolve that renews without re-checking under the write lock
resolve_wchk_noRecheck(p) ==
  /\ At(p, "resolve", "wchk")
  /\ Push(p, [Top(p) EXCEPT !.pc = "renewed"], Frame(renewFn(Top(p).ent), "start", Top(p).ent))
  /\ UNCHANGED <<now, ticks, ncalls, privKs, dom, svc, svcMap, wl, rl, mapW, mapR, ret, call, signReqs, discReqs, ghost>>
  /\ UNCHANGED aux

resolve_wchk(p) ==
  /\ At(p, "resolve", "wchk")
  /\ LET e == Top(p).ent IN
       IF ~shouldRenew(e)
         THEN /\ wl' = [wl EXCEPT ![e] = 0]
              /\ Pop(p, Ok(Top(p).v))
         ELSE /\ Push(p, [Top(p) EXCEPT !.pc = "renewed"], Frame(renewFn(e), "start", e))
              /\ UNCHANGED <<wl, ret, ghost>>
  /\ UNCHANGED <<now, ticks, ncalls, privKs, dom, svc, svcMap, rl, mapW, mapR, call, signReqs, discReqs, ghost>>
  /\ UNCHANGED aux

\* resolve that keeps the entry locked when renew fails
resolve_renewed_keepOnError(p) ==
  /\ At(p, "resolve", "renewed")
  /\ LET e == Top(p).ent IN
       /\ wl' = [wl EXCEPT ![e] = IF ret[p].err THEN @ ELSE 0]
       /\ IF ret[p].err THEN Pop(p, Err) ELSE Pop(p, Ok(value(e)))
  /\ UNCHANGED <<now, ticks, ncalls, privKs, dom, svc, svcMap, rl, mapW, mapR, call, signReqs, discReqs, ghost>>
  /\ UNCHANGED aux

resolve_renewed(p) ==
  /\ At(p, "resolve", "renewed")
  /\ LET e == Top(p).ent IN
       /\ wl' = [wl EXCEPT ![e] = 0]
       /\ IF ret[p].err THEN Pop(p, Err) ELSE Pop(p, Ok(value(e)))
  /\ UNCHANGED <<now, ticks, ncalls, privKs, dom, svc, svcMap, rl, mapW, mapR, call, signReqs, discReqs, ghost>>
  /\ UNCHANGED aux

\* ------------------------------------------------------ SelectEndpoints
\* The selector's result: one of the candidates whose GET succeeded, or
\* the error (nothing answered, the 5 second ceiling, the caller's context).
SelectOutcomes(E) == {Ok([endpoint |-> u]) : u \in E} \cup {Err}

SelectEndpoints_start(p) ==
  /\ At(p, "SelectEndpoints", "start")
  /\ Failed(Top(p).E = {})
  /\ IF Top(p).E = {}
       THEN Pop(p, Err)
       ELSE SetTop(p, [Top(p) EXCEPT !.pc = "wait"]) /\ UNCHANGED ret
  /\ UNCHANGED <<now, ticks, ncalls, privKs, dom, svc, svcMap, wl, rl, mapW, mapR, call, signReqs, discReqs>>
  /\ UNCHANGED aux

SelectEndpoints_done(p) ==
  /\ At(p, "SelectEndpoints", "wait")
  /\ \E r \in SelectOutcomes(Top(p).E) : Pop(p, r) /\ Failed(r.err)
  /\ UNCHANGED <<now, ticks, ncalls, privKs, dom, svc, svcMap, wl, rl, mapW, mapR, call, signReqs, discReqs>>
  /\ UNCHANGED aux

\* -------------------------------------------------- domainRenewer.renew
\* The frame of renew keeps of the response res what the code still reads:
\* the keys and the hint up to their assignment, and the advertised list
\* res.ServiceEndpoints up to `r.ks = &res.ks` when no selection runs.
domainRenew_get(p) ==
  /\ At(p, "domainRenew", "start")
  /\ discReqs' = discReqs + 1
  /\ call' = [call EXCEPT ![p].discs = @ + 1]
  /\ SetTop(p, [Top(p) EXCEPT !.pc = "get_wait"])
  /\ UNCHANGED <<now, ticks, ncalls, privKs, dom, svc, svcMap, wl, rl, mapW, mapR, ret, signReqs, ghost>>
  /\ UNCHANGED aux

\* renew that stores the keys of the response before it validates it
domainRenew_response_writeFirst(p) ==
  /\ At(p, "domainRenew", "get_wait")
  /\ LET k == Top(p).ent[2] IN
     \E res \in DiscResponses :
       /\ dom' = [dom EXCEPT ![k].ks = res.ks]
       /\ IF ~res.ok \/ res.otid # k \/ ~res.keysok
            THEN Pop(p, Err) /\ Committed(Top(p).ent, TRUE, valueOf(dom', svc, Top(p).ent))
            ELSE IF dom[k].endpoint = "" \/ ~stringsHas(res.E, dom[k].endpoint)
              THEN /\ Push(p, [Top(p) EXCEPT !.pc = "selected", !.ks = res.ks, !.h = res.h],
                           [Frame("SelectEndpoints", "start", NoEnt) EXCEPT !.E = res.E])
                   /\ UNCHANGED <<ret, ghost>>
              ELSE /\ SetTop(p, [Top(p) EXCEPT !.pc = "w_ks", !.ks = res.ks, !.h = res.h, !.E = res.E])
                   /\ UNCHANGED <<ret, ghost>>
  /\ UNCHANGED <<now, ticks, ncalls, privKs, svc, svcMap, wl, rl, mapW, mapR, call, signReqs, discReqs>>
  /\ UNCHANGED aux

domainRenew_response(p) ==
  /\ At(p, "domainRenew", "get_wait")
  /\ LET k == Top(p).ent[2] IN
     \E res \in DiscResponses :
       IF ~res.ok \/ res.otid # k \/ ~res.keysok
         THEN Pop(p, Err) /\ Committed(Top(p).ent, TRUE, value(Top(p).ent))
         ELSE IF dom[k].endpoint = "" \/ ~stringsHas(res.E, dom[k].endpoint)
           THEN /\ Push(p, [Top(p) EXCEPT !.pc = "selected", !.ks = res.ks, !.h = res.h],
                        [Frame("SelectEndpoints", "start", NoEnt) EXCEPT !.E = res.E])
                /\ UNCHANGED <<ret, ghost>>
           ELSE /\ SetTop(p, [Top(p) EXCEPT !.pc = "w_ks", !.ks = res.ks, !.h = res.h, !.E = res.E])
                /\ UNCHANGED <<ret, ghost>>
  /\ UNCHANGED <<now, ticks, ncalls, privKs, dom, svc, svcMap, wl, rl, mapW, mapR, call, signReqs, discReqs>>
  /\ UNCHANGED aux

domainRenew_selected(p) ==
  /\ At(p, "domainRenew", "selected")
  /\ LET k == Top(p).ent[2] IN
       IF ret[p].err
         THEN Pop(p, Err) /\ Committed(Top(p).ent, FALSE, value(Top(p).ent)) /\ UNCHANGED dom
         ELSE /\ dom' = [dom EXCEPT ![k].endpoint = ret[p].v.endpoint]
              /\ SetTop(p, [Top(p) EXCEPT !.pc = "w_ks"])
              /\ Took(p)
              /\ UNCHANGED ghost
  /\ UNCHANGED <<now, ticks, ncalls, privKs, svc, svcMap, wl, rl, mapW, mapR, call, signReqs, discReqs>>
  /\ UNCHANGED aux

domainRenew_ks(p) ==
  /\ At(p, "domainRenew", "w_ks")
  /\ dom' = [dom EXCEPT ![Top(p).ent[2]].ks = Top(p).ks]
  /\ SetTop(p, [Top(p) EXCEPT !.pc = "w_exp", !.E = {}])
  /\ UNCHANGED <<now, ticks, ncalls, privKs, svc, svcMap, wl, rl, mapW, mapR, ret, call, signReqs, discReqs, ghost>>
  /\ UNCHANGED aux

\* expiresAt after a renewal at time t with hint h seconds
renewExpiresAt(t, h) == IF h > 1 THEN t + Seconds(h) ELSE t + Hour

domainRenew_expiresAt(p) ==
  /\ At(p, "domainRenew", "w_exp")
  /\ dom' = [dom EXCEPT ![Top(p).ent[2]].expiresAt = renewExpiresAt(now, Top(p).h)]
  /\ Pop(p, Ok(NoVal))
  /\ Committed(Top(p).ent, FALSE, valueOf(dom', svc, Top(p).ent))
  /\ UNCHANGED <<now, ticks, ncalls, privKs, svc, svcMap, wl, rl, mapW, mapR, call, signReqs, discReqs>>
  /\ UNCHANGED aux

\* ------------------------------------------------------- the API calls
\* call[p]: the operation and its arguments, and what an observer notes
\* about the call: the callers whose Resolve or Do of the same audience
\* overlaps it (with), the /sign and discovery requests it has sent, and
\* what had been seeded and statically configured when it started.
NoCall == [op |-> "none", key |-> "", tok |-> EmptyToken, ep |-> "", ks |-> NilKs,
           with |-> {}, signs |-> 0, discs |-> 0,
           seeded |-> [vid |-> NilVid, endpoint |-> ""], static |-> NilKs]
CanCall(p) == Idle(p) /\ ncalls < MaxCalls

ServiceOps == {"ServiceResolve", "ServiceDo"}
Peers(p, c) ==
  {q \in Procs \ {p} : ~Idle(q) /\ c.op \in ServiceOps /\ call[q].op \in ServiceOps /\ call[q].key = c.key}
Begin(p, c) ==
  call' = [q \in Procs |->
            IF q = p
              THEN [c EXCEPT !.with = Peers(p, c), !.seeded = ghost.seeded, !.static = ghost.static]
              ELSE [call[q] EXCEPT !.with = IF q \in Peers(p, c) THEN @ \cup {p} ELSE @ \ {p}]]

\* oc.Domain(td).Resolve(ctx)
StartDomainResolve(p) ==
  /\ CanCall(p)
  /\ \E k \in DomKeys :
       /\ Begin(p, [NoCall EXCEPT !.op = "DomainResolve", !.key = k])
       /\ stack' = [stack EXCEPT ![p] = <<Frame("resolve", "rlock", <<"dom", k>>),
                                          Frame("Get", "rlock", <<"dom", k>>)>>]
  /\ ncalls' = ncalls + 1
  /\ UNCHANGED <<now, ticks, privKs, dom, svc, svcMap, wl, rl, mapW, mapR, ret, signReqs, discReqs, ghost>>
  /\ UNCHANGED aux

\* the clock
Tick(d) ==
  /\ ticks < MaxTicks
  /\ ticks' = ticks + 1
  /\ now' = now + d
  /\ UNCHANGED <<ncalls, privKs, dom, svc, svcMap, wl, rl, mapW, mapR, stack, ret, call, signReqs, discReqs, ghost>>
  /\ UNCHANGED aux

TickShort == Tick(ShortStep)
TickLong == Tick(LongStep)

\* ------------------------------------------------- OTClient.SetPrivateKeys
clock == <<now, ticks>>
locks == <<wl, rl, mapW, mapR>>
reqs == <<signReqs, discReqs>>

StartSetPrivateKeys(p) ==
  /\ CanCall(p)
  /\ \E ks \in PrivKeysets :
       /\ Begin(p, [NoCall EXCEPT !.op = "SetPrivateKeys", !.ks = ks])
       /\ stack' = [stack EXCEPT ![p] = <<[Frame("SetPrivateKeys", "write", NoEnt) EXCEPT !.ks = ks]>>]
  /\ ncalls' = ncalls + 1
  /\ UNCHANGED <<clock, locks, reqs, privKs, dom, svc, svcMap, ret, ghost>>
  /\ UNCHANGED aux

SetPrivateKeys_write(p) ==
  /\ At(p, "SetPrivateKeys", "write")
  /\ privKs' = Top(p).ks
  /\ Pop(p, Ok(NoVal))
  /\ UNCHANGED <<clock, locks, reqs, ncalls, dom, svc, svcMap, call, ghost>>
  /\ UNCHANGED aux

\* ------------------------------------------------------ OTClient.SignSelf
Minute == Seconds(60)

\* the self-signed OTVID of the subject, signed at time t
selfToken(t) ==
  [wf |-> TRUE, id |-> Sub, iss |-> Sub, aud |-> TdOTID, exp |-> t + Minute * 10,
   rid |-> "", key |-> "priv", n |-> 0]

StartSignSelf(p) ==
  /\ CanCall(p)
  /\ Begin(p, [NoCall EXCEPT !.op = "SignSelf"])
  /\ stack' = [stack EXCEPT ![p] = <<Frame("SignSelf", "key", NoEnt)>>]
  /\ ncalls' = ncalls + 1
  /\ UNCHANGED <<clock, locks, reqs, privKs, dom, svc, svcMap, ret, ghost>>
  /\ UNCHANGED aux

SignSelf_key(p) ==
  /\ At(p, "SignSelf", "key")
  /\ Failed(LookupSigningKey(privKs).err)
  /\ IF LookupSigningKey(privKs).err
       THEN Pop(p, Err)
       ELSE Pop(p, Ok([tok |-> selfToken(now)]))
  /\ UNCHANGED <<clock, locks, reqs, ncalls, privKs, dom, svc, svcMap, call>>
  /\ UNCHANGED aux

\* ---------------------------------------------------------- OTClient.Sign
Sign_domain(p) ==
  /\ At(p, "Sign", "dom")
  /\ Push(p, [Top(p) EXCEPT !.pc = "resolved"], Frame("resolve", "rlock", <<"dom", TdOTID>>))
  /\ UNCHANGED <<clock, locks, reqs, ncalls, privKs, dom, svc, svcMap, ret, call, ghost>>
  /\ UNCHANGED aux

\* Sign that goes on to SignSelf whatever the resolution of the domain returned
Sign_resolved_ignoreErr(p) ==
  /\ At(p, "Sign", "resolved")
  /\ Push(p, [Top(p) EXCEPT !.pc = "signed", !.v = ret[p].v], Frame("SignSelf", "key", NoEnt))
  /\ Took(p)
  /\ UNCHANGED <<clock, locks, reqs, ncalls, privKs, dom, svc, svcMap, call, ghost>>
  /\ UNCHANGED aux

Sign_resolved(p) ==
  /\ At(p, "Sign", "resolved")
  /\ IF ret[p].err
       THEN Pop(p, Err)
       ELSE /\ Push(p, [Top(p) EXCEPT !.pc = "signed", !.v = ret[p].v], Frame("SignSelf", "key", NoEnt))
            /\ Took(p)
  /\ UNCHANGED <<clock, locks, reqs, ncalls, privKs, dom, svc, svcMap, call, ghost>>
  /\ UNCHANGED aux

Sign_post(p) ==
  /\ At(p, "Sign", "signed")
  /\ IF ret[p].err
       THEN Pop(p, Err) /\ UNCHANGED <<signReqs, call>>
       ELSE /\ signReqs' = [signReqs EXCEPT ![Top(p).ent[2]] = @ + 1]
            /\ SetTop(p, [Top(p) EXCEPT !.pc = "post_wait", !.tok = ret[p].v.tok])
            /\ Took(p)
            /\ call' = [call EXCEPT ![p].signs = @ + 1]
  /\ UNCHANGED <<clock, locks, discReqs, ncalls, privKs, dom, svc, svcMap, ghost>>
  /\ UNCHANGED aux

Sign_response(p) ==
  /\ At(p, "Sign", "post_wait")
  /\ LET a == Top(p).ent[2] IN
     \E res \in SignResponses(a, signReqs[a], now) :
       /\ Failed(~res.ok \/ ~res.tok.wf)
       /\ IF ~res.ok THEN Pop(p, Err) ELSE Pop(p, Ok([tok |-> res.tok, E |-> res.E]))
  /\ UNCHANGED <<clock, locks, reqs, ncalls, privKs, dom, svc, svcMap, call>>
  /\ UNCHANGED aux

\* An authority that answers POST /sign for audience a with an OTVID it
\* issued for another subject or another audience.
ForeignTokens(a, n, t) ==
  {MkToken(id, aud, t + Hour, n) : id \in {Sub, Other}, aud \in {a, Other}} \ {MkToken(Sub, a, t + Hour, n)}

Sign_response_foreign(p) ==
  /\ At(p, "Sign", "post_wait")
  /\ LET a == Top(p).ent[2] IN
     \E tok \in ForeignTokens(a, signReqs[a], now), E \in AdvLists \ {{}} :
       /\ Failed(TRUE)
       /\ Pop(p, Ok([tok |-> tok, E |-> E]))
  /\ UNCHANGED <<clock, locks, reqs, ncalls, privKs, dom, svc, svcMap, call>>
  /\ UNCHANGED aux

\* ------------------------------------------------- serviceRenewer.renew
serviceRenew_sign(p) ==
  /\ At(p, "serviceRenew", "start")
  /\ Push(p, [Top(p) EXCEPT !.pc = "signed"], Frame("Sign", "dom", Top(p).ent))
  /\ UNCHANGED <<clock, locks, reqs, ncalls, privKs, dom, svc, svcMap, ret, call, ghost>>
  /\ UNCHANGED aux

serviceRenew_parse(p) ==
  /\ At(p, "serviceRenew", "signed")
  /\ LET k == Top(p).ent[2] IN
       IF ret[p].err
         THEN Pop(p, Err) /\ Committed(Top(p).ent, FALSE, value(Top(p).ent)) /\ UNCHANGED svc
         ELSE LET parsed == ParseOTVIDInsecure(ret[p].v.tok)
                  E == ret[p].v.E IN
              /\ svc' = [svc EXCEPT ![k].vid = parsed.v]
              /\ IF parsed.err
                   THEN Pop(p, Err) /\ Committed(Top(p).ent, FALSE, valueOf(dom, svc', Top(p).ent))
                   ELSE IF svc[k].endpoint = "" \/ ~stringsHas(E, svc[k].endpoint)
                     THEN /\ Push(p, [Top(p) EXCEPT !.pc = "selected"],
                                  [Frame("SelectEndpoints", "start", NoEnt) EXCEPT !.E = E])
                          /\ Took(p)
                          /\ UNCHANGED ghost
                     ELSE Pop(p, Ok(NoVal)) /\ Committed(Top(p).ent, FALSE, valueOf(dom, svc', Top(p).ent))
  /\ UNCHANGED <<clock, locks, reqs, ncalls, privKs, dom, svcMap, call>>
  /\ UNCHANGED aux

serviceRenew_selected(p) ==
  /\ At(p, "serviceRenew", "selected")
  /\ svc' = [svc EXCEPT ![Top(p).ent[2]].endpoint = ret[p].v.endpoint]
  /\ IF ret[p].err THEN Pop(p, Err) ELSE Pop(p, Ok(NoVal))
  /\ Committed(Top(p).ent, FALSE, valueOf(dom, svc', Top(p).ent))
  /\ UNCHANGED <<clock, locks, reqs, ncalls, privKs, dom, svcMap, call>>
  /\ UNCHANGED aux

\* oc.Service(aud).Resolve(ctx)
StartServiceResolve(p) ==
  /\ CanCall(p)
  /\ \E k \in Auds :
       /\ Begin(p, [NoCall EXCEPT !.op = "ServiceResolve", !.key = k])
       /\ stack' = [stack EXCEPT ![p] = <<Frame("resolve", "rlock", <<"svc", k>>),
                                          Frame("Get", "rlock", <<"svc", k>>)>>]
  /\ ncalls' = ncalls + 1
  /\ UNCHANGED <<clock, locks, reqs, privKs, dom, svc, svcMap, ret, ghost>>
  /\ UNCHANGED aux

ServiceSteps(p) ==
  \/ SetPrivateKeys_write(p) \/ SignSelf_key(p)
  \/ Sign_domain(p) \/ Sign_resolved(p) \/ Sign_post(p) \/ Sign_response(p)
  \/ serviceRenew_sign(p) \/ serviceRenew_parse(p) \/ serviceRenew_selected(p)

\* ------------------------------------------------- OTClient.SetDomainKeys
StartSetDomainKeys(p) ==
  /\ CanCall(p)
  /\ \E ks \in StaticKeys :
       /\ Begin(p, [NoCall EXCEPT !.op = "SetDomainKeys", !.ks = ks])
       /\ stack' = [stack EXCEPT ![p] =
            <<[Frame("SetDomainKeys", "w_ks", <<"dom", TdOTID>>) EXCEPT !.ks = ks]>>]
  /\ ncalls' = ncalls + 1
  /\ UNCHANGED <<clock, locks, reqs, privKs, dom, svc, svcMap, ret, ghost>>
  /\ UNCHANGED aux

SetDomainKeys_ks(p) ==
  /\ At(p, "SetDomainKeys", "w_ks")
  /\ dom' = [dom EXCEPT ![TdOTID].ks = Top(p).ks]
  /\ SetTop(p, [Top(p) EXCEPT !.pc = "w_ep"])
  /\ UNCHANGED <<clock, locks, reqs, ncalls, privKs, svc, svcMap, ret, call, ghost>>
  /\ UNCHANGED aux

SetDomainKeys_endpoint(p) ==
  /\ At(p, "SetDomainKeys", "w_ep")
  /\ dom' = [dom EXCEPT ![TdOTID].endpoint = nullhost]
  /\ SetTop(p, [Top(p) EXCEPT !.pc = "w_exp"])
  /\ UNCHANGED <<clock, locks, reqs, ncalls, privKs, svc, svcMap, ret, call, ghost>>
  /\ UNCHANGED aux

SetDomainKeys_expiresAt(p) ==
  /\ At(p, "SetDomainKeys", "w_exp")
  /\ dom' = [dom EXCEPT ![TdOTID].expiresAt = now + Forever]
  /\ Pop(p, Ok(NoVal))
  /\ ghost' = [ghost EXCEPT !.committed[Top(p).ent] = valueOf(dom', svc, Top(p).ent),
                             !.static = Top(p).ks]
  /\ UNCHANGED <<clock, locks, reqs, ncalls, privKs, svc, svcMap, call>>
  /\ UNCHANGED aux

\* --------------------------------------------------- OTClient.AddAudience
\* tokens and endpoints the application seeds at time t
AddTokens(t) ==
  {EmptyToken,
   MkToken(Other, AudA, t + Hour, 0),
   MkToken(Sub, AudA, t, 0),
   MkToken(Sub, AudA, t + Seconds(10), 0),
   MkToken(Sub, AudA, t + Hour, 0)}
AddEndpoints == {"", "http://e1"}

StartAddAudience(p) ==
  /\ CanCall(p)
  /\ \E tok \in AddTokens(now), ep \in AddEndpoints :
       /\ Begin(p, [NoCall EXCEPT !.op = "AddAudience", !.tok = tok, !.ep = ep])
       /\ stack' = [stack EXCEPT ![p] = <<[Frame("AddAudience", "parse", NoEnt) EXCEPT !.tok = tok]>>]
  /\ ncalls' = ncalls + 1
  /\ UNCHANGED <<clock, locks, reqs, privKs, dom, svc, svcMap, ret, ghost>>
  /\ UNCHANGED aux

\* AddAudience that does not compare the token's subject with the client's
addAudienceRejects_anySubject(tok, t) ==
  \/ ParseOTVIDInsecure(tok).err
  \/ ShouldRenew(ParseOTVIDInsecure(tok).v, t)

\* the checks AddAudience makes before it touches the cache
addAudienceRejects(tok, t) ==
  \/ ParseOTVIDInsecure(tok).err
  \/ ParseOTVIDInsecure(tok).v.id # Sub
  \/ ShouldRenew(ParseOTVIDInsecure(tok).v, t)

AddAudience_parse(p) ==
  /\ At(p, "AddAudience", "parse")
  /\ IF addAudienceRejects(Top(p).tok, now)
       THEN Pop(p, Err)
       ELSE LET e == <<"svc", ParseOTVIDInsecure(Top(p).tok).v.aud>> IN
            /\ Push(p, [Top(p) EXCEPT !.pc = "w_vid", !.ent = e], Frame("Get", "rlock", e))
            /\ UNCHANGED ret
  /\ UNCHANGED <<clock, locks, reqs, ncalls, privKs, dom, svc, svcMap, call, ghost>>
  /\ UNCHANGED aux

AddAudience_vid(p) ==
  /\ At(p, "AddAudience", "w_vid")
  /\ svc' = [svc EXCEPT ![Top(p).ent[2]].vid = ParseOTVIDInsecure(Top(p).tok).v]
  /\ SetTop(p, [Top(p) EXCEPT !.pc = "w_ep"])
  /\ UNCHANGED <<clock, locks, reqs, ncalls, privKs, dom, svcMap, ret, call, ghost>>
  /\ UNCHANGED aux

AddAudience_endpoint(p) ==
  /\ At(p, "AddAudience", "w_ep")
  /\ svc' = [svc EXCEPT ![Top(p).ent[2]].endpoint = call[p].ep]
  /\ Pop(p, Ok(NoVal))
  /\ ghost' = [ghost EXCEPT !.committed[Top(p).ent] = valueOf(dom, svc', Top(p).ent),
                             !.seeded = [vid |-> ParseOTVIDInsecure(Top(p).tok).v, endpoint |-> call[p].ep]]
  /\ UNCHANGED <<clock, locks, reqs, ncalls, privKs, dom, svcMap, call>>
  /\ UNCHANGED aux

\* ------------------------------------------------------ ServiceClient.Do
\* What the service answers: a transport failure, or a decoded body that
\* carries a result or only an error.
DoResponses == {[ok |-> FALSE, body |-> ""], [ok |-> TRUE, body |-> "error"], [ok |-> TRUE, body |-> "result"]}

StartServiceDo(p) ==
  /\ CanCall(p)
  /\ \E k \in Auds :
       /\ Begin(p, [NoCall EXCEPT !.op = "ServiceDo", !.key = k])
       /\ stack' = [stack EXCEPT ![p] = <<Frame("Do", "resolved", <<"svc", k>>),
                                          Frame("resolve", "rlock", <<"svc", k>>),
                                          Frame("Get", "rlock", <<"svc", k>>)>>]
  /\ ncalls' = ncalls + 1
  /\ UNCHANGED <<clock, locks, reqs, privKs, dom, svc, svcMap, ret, ghost>>
  /\ UNCHANGED aux

Do_resolved(p) ==
  /\ At(p, "Do", "resolved")
  /\ IF ret[p].err
       THEN Pop(p, Err)
       ELSE /\ SetTop(p, [Top(p) EXCEPT !.pc = "http", !.tok = Token(ret[p].v.vid),
                                        !.v = [endpoint |-> ret[p].v.endpoint]])
            /\ Took(p)
  /\ UNCHANGED <<clock, locks, reqs, ncalls, privKs, dom, svc, svcMap, call, ghost>>
  /\ UNCHANGED aux

Do_response(p) ==
  /\ At(p, "Do", "http")
  /\ \E res \in DoResponses :
       /\ Failed(~res.ok \/ res.body = "error")
       /\ IF ~res.ok THEN Pop(p, Err) ELSE Pop(p, Ok([body |-> res.body, tok |-> Top(p).tok]))
  /\ UNCHANGED <<clock, locks, reqs, ncalls, privKs, dom, svc, svcMap, call>>
  /\ UNCHANGED aux

\* -------------------------------------------------------- OTClient.Verify
\* FromJWT on the token the /verify response was decoded into: an empty
\* JWT (no result in the envelope) has no subject and does not parse.
FromJWT(tok, body) ==
  IF body = "result" /\ tok.wf THEN ParseOTVIDInsecure(tok) ELSE [err |-> TRUE, v |-> NilVid]

Verify_done(p) ==
  /\ At(p, "Verify", "done")
  /\ IF ret[p].err
       THEN Pop(p, Err)
       ELSE Pop(p, [err |-> FromJWT(Top(p).tok, ret[p].v.body).err,
                    v |-> [vid |-> FromJWT(Top(p).tok, ret[p].v.body).v, by |-> "authority"]])
  /\ UNCHANGED <<clock, locks, reqs, ncalls, privKs, dom, svc, svcMap, call, ghost>>
  /\ UNCHANGED aux

\* the frames of a call of oc.Verify(ctx, tok, aud)
VerifyFrames(tok) ==
  <<[Frame("Verify", "done", NoEnt) EXCEPT !.tok = tok],
    Frame("Do", "resolved", <<"svc", TdOTID>>),
    Frame("resolve", "rlock", <<"svc", TdOTID>>)>>

\* ---------------------------------------------------- OTClient.ParseOTVID
\* OTVID.verifyClaims
verifyClaims(vid, issuer, audience, t) ==
  /\ vid.iss = issuer
  /\ vid.aud = audience
  /\ t < vid.exp

\* ParseOTVID(token, ks, issuer, audience): the signature verifies when the
\* keyset holds the key that signed the token.
ParseOTVID(tok, ks, issuer, audience, t) ==
  IF tok.wf /\ ks # NilKs /\ tok.key = ks /\ verifyClaims(ParseOTVIDInsecure(tok).v, issuer, audience, t)
    THEN ParseOTVIDInsecure(tok)
    ELSE [err |-> TRUE, v |-> NilVid]

\* tokens the application is handed at time t
ParseTokens(t) ==
  {[wf |-> TRUE, id |-> Other, iss |-> TdOTID, aud |-> Sub, exp |-> t + Hour, rid |-> rid, key |-> k, n |-> 0] :
     rid \in {"", "r1"}, k \in {"K0", "K1"}}

StartParseOTVID(p) ==
  /\ CanCall(p)
  /\ \E tok \in ParseTokens(now) :
       /\ Begin(p, [NoCall EXCEPT !.op = "ParseOTVID", !.tok = tok])
       /\ stack' = [stack EXCEPT ![p] = <<[Frame("ParseOTVID", "resolved", NoEnt) EXCEPT !.tok = tok],
                                          Frame("resolve", "rlock", <<"dom", TdOTID>>)>>]
  /\ ncalls' = ncalls + 1
  /\ UNCHANGED <<clock, locks, reqs, privKs, dom, svc, svcMap, ret, ghost>>
  /\ UNCHANGED aux

ParseOTVID_resolved_anyToken(p) ==
  /\ At(p, "ParseOTVID", "resolved")
  /\ IF ret[p].err
       THEN Pop(p, Err)
       ELSE LET cfg == ret[p].v
                parsed == ParseOTVID(Top(p).tok, cfg.ks, TdOTID, Sub, now) IN
            IF parsed.err
              THEN Pop(p, Err)
              ELSE IF cfg.endpoint # "" /\ cfg.endpoint # nullhost
                THEN /\ stack' = [stack EXCEPT ![p] =
                           SubSeq(@, 1, Len(@) - 1) \o <<[Top(p) EXCEPT !.pc = "verified", !.ks = cfg.ks]>>
                             \o VerifyFrames(Top(p).tok)]
                     /\ Took(p)
                ELSE Pop(p, Ok([vid |-> parsed.v, by |-> cfg.ks]))
  /\ UNCHANGED <<clock, locks, reqs, ncalls, privKs, dom, svc, svcMap, call, ghost>>
  /\ UNCHANGED aux

ParseOTVID_resolved(p) ==
  /\ At(p, "ParseOTVID", "resolved")
  /\ IF ret[p].err
       THEN Pop(p, Err)
       ELSE LET cfg == ret[p].v
                parsed == ParseOTVID(Top(p).tok, cfg.ks, TdOTID, Sub, now) IN
            IF parsed.err
              THEN Pop(p, Err)
              ELSE IF MaybeRevoked(parsed.v) /\ cfg.endpoint # "" /\ cfg.endpoint # nullhost
                THEN /\ stack' = [stack EXCEPT ![p] =
                           SubSeq(@, 1, Len(@) - 1) \o <<[Top(p) EXCEPT !.pc = "verified", !.ks = cfg.ks]>>
                             \o VerifyFrames(Top(p).tok)]
                     /\ Took(p)
                ELSE Pop(p, Ok([vid |-> parsed.v, by |-> cfg.ks]))
  /\ UNCHANGED <<clock, locks, reqs, ncalls, privKs, dom, svc, svcMap, call, ghost>>
  /\ UNCHANGED aux

ParseOTVID_verified(p) ==
  /\ At(p, "ParseOTVID", "verified")
  /\ Pop(p, ret[p])
  /\ UNCHANGED <<clock, locks, reqs, ncalls, privKs, dom, svc, svcMap, call, ghost>>
  /\ UNCHANGED aux

FacadeSteps(p) ==
  \/ Do_resolved(p) \/ Do_response(p) \/ Verify_done(p)
  \/ ParseOTVID_resolved(p) \/ ParseOTVID_verified(p)

SetDomainKeysSteps(p) ==
  SetDomainKeys_ks(p) \/ SetDomainKeys_endpoint(p) \/ SetDomainKeys_expiresAt(p)

AddAudienceSteps(p) ==
  AddAudience_parse(p) \/ AddAudience_vid(p) \/ AddAudience_endpoint(p)

\* the steps of a Resolve whose entry exists
EntrySteps(p) ==
  \/ Get_RLock(p) \/ Get_lookup(p)
  \/ resolve_RLock(p) \/ resolve_rval(p) \/ resolve_rchk(p) \/ resolve_Lock(p)
  \/ resolve_wval(p) \/ resolve_wchk(p) \/ resolve_renewed(p)
  \/ SelectEndpoints_start(p) \/ SelectEndpoints_done(p)
  \/ domainRenew_get(p) \/ domainRenew_response(p) \/ domainRenew_selected(p)
  \/ domainRenew_ks(p) \/ domainRenew_expiresAt(p)

CacheSteps(p) == EntrySteps(p) \/ Get_Lock(p) \/ Get_create(p)

\* Resolve and Do callers of a client whose signing key is configured by
\* SetPrivateKeys
NextResolve ==
  \/ TickShort
  \/ \E p \in Procs :
       \/ StartDomainResolve(p) \/ StartServiceResolve(p) \/ StartServiceDo(p)
       \/ StartSetPrivateKeys(p)
       \/ CacheSteps(p) \/ ServiceSteps(p) \/ Do_resolved(p) \/ Do_response(p)
SpecResolve == Init /\ [][NextResolve]_vars


\* ------------------------------------------- SelectEndpoints, in detail
\* candidate URLs: two that start with "http" and one that does not
Candidates == Endpoints \cup {"ftp://e3"}
\* strings.HasPrefix(url, "http")
HasPrefixHTTP(url) == url \in Endpoints

CandidateLists ==
  UNION {[1..n -> Candidates] : n \in 0..MaxUrls}

InitSelect == InitClient /\ otv = NoOtv /\ oid = NoOid /\ rc = NoRc /\ \E urls \in CandidateLists : sel = SelRun(urls)

\* len(serviceEndpoints) == 0
selectMain_empty ==
  /\ sel.main = "start" /\ sel.urls = <<>>
  /\ sel' = [sel EXCEPT !.main = "returned", !.res = [err |-> "no service endpoints", url |-> ""]]
  /\ UNCHANGED notSel

\* context.WithTimeout, make(chan string), and the loop of go statements
selectMain_spawn ==
  /\ sel.main = "start" /\ sel.urls # <<>>
  /\ sel' = [sel EXCEPT !.main = "select", !.i = Len(sel.urls),
                        !.g = [k \in 1..Len(sel.urls) |-> "start"]]
  /\ UNCHANGED notSel

\* the 5-second timeout fires, or the caller's context ends
selectCtx_expire ==
  /\ sel.main = "select" /\ sel.ctx = "live"
  /\ sel' = [sel EXCEPT !.ctx = "done", !.expired = TRUE, !.early = (sel.oks = <<>>)]
  /\ UNCHANGED notSel

selectAttempt_prefix(k) ==
  /\ k \in DOMAIN sel.g /\ sel.g[k] = "start"
  /\ sel' = [sel EXCEPT !.g[k] = IF HasPrefixHTTP(sel.urls[k]) THEN "get" ELSE "dec"]
  /\ UNCHANGED notSel

\* cli.Do(ctx, "GET", url) returns: the request fails when the endpoint
\* does, and always once ctx is done; on success the goroutine blocks in
\* `ch <- url` behind the goroutines that wait there already
selectAttempt_get(k) ==
  /\ k \in DOMAIN sel.g /\ sel.g[k] = "get"
  /\ \E ok \in IF sel.ctx = "done" THEN {FALSE} ELSE BOOLEAN :
       sel' = IF ok
                THEN [sel EXCEPT !.g[k] = "send", !.ch = Append(@, k), !.oks = Append(@, k)]
                ELSE [sel EXCEPT !.g[k] = "dec"]
  /\ UNCHANGED notSel

\* atomic.AddInt32(&i, -1) == 0 => cancel()
selectAttempt_dec(k) ==
  /\ k \in DOMAIN sel.g /\ sel.g[k] = "dec"
  /\ sel' = [sel EXCEPT !.g[k] = "done", !.i = @ - 1,
                        !.ctx = IF sel.i - 1 = 0 THEN "done" ELSE @]
  /\ UNCHANGED notSel

\* select that receives from a goroutine other than the one that waits longest
selectMain_recv_any ==
  /\ sel.main = "select" /\ sel.ch # <<>>
  /\ \E n \in 1..Len(sel.ch) :
       sel' = [sel EXCEPT !.main = "returned", !.res = [err |-> "", url |-> sel.urls[sel.ch[n]]],
                          !.g[sel.ch[n]] = "dec",
                          !.ch = SubSeq(@, 1, n - 1) \o SubSeq(@, n + 1, Len(@)),
                          !.ctx = "done"]
  /\ UNCHANGED notSel

\* case url := <-ch: the goroutine that waits longest hands over its url;
\* the deferred cancel() runs
selectMain_recv ==
  /\ sel.main = "select" /\ sel.ch # <<>>
  /\ sel' = [sel EXCEPT !.main = "returned", !.res = [err |-> "", url |-> sel.urls[Head(sel.ch)]],
                        !.g[Head(sel.ch)] = "dec", !.ch = Tail(@), !.ctx = "done"]
  /\ UNCHANGED notSel

\* case <-ctx.Done()
selectMain_done ==
  /\ sel.main = "select" /\ sel.ctx = "done"
  /\ sel' = [sel EXCEPT !.main = "returned",
                        !.res = [err |-> "no valid service endpoints", url |-> ""]]
  /\ UNCHANGED notSel

NextSelect ==
  \/ selectMain_empty \/ selectMain_spawn \/ selectCtx_expire
  \/ selectMain_recv \/ selectMain_done
  \/ \E k \in 1..MaxUrls :
       selectAttempt_prefix(k) \/ selectAttempt_get(k) \/ selectAttempt_dec(k)
SpecSelect == InitSelect /\ [][NextSelect]_vars

\* ------------------------------------------- one OTVID object, in detail
\* The application builds an OTVID and calls Sign, Verify, ShouldRenew and
\* the two parsers, in any order, while the clock advances by quarter seconds.
InitOTVID == InitClient /\ sel = NoSel /\ oid = NoOid /\ rc = NoRc /\ \E o \in OTVIDs : otv = [NoOtv EXCEPT !.o = o]

otv_Tick ==
  /\ otv.t < T0 + MaxQuarters
  /\ otv' = [otv EXCEPT !.t = @ + 1]
  /\ UNCHANGED notOtv

otv_Sign(key) ==
  /\ otv' = [otv EXCEPT
       !.o = otvidSign(otv.o, key, otv.t).o,
       !.res = [NoRes EXCEPT !.op = "Sign", !.key = key, !.t = otv.t, !.before = otv.o,
                             !.err = otvidSign(otv.o, key, otv.t).err,
                             !.out = otvidSign(otv.o, key, otv.t).token]]
  /\ UNCHANGED notOtv

otv_Verify(ks, issuer, audience) ==
  /\ otv' = [otv EXCEPT
       !.res = [NoRes EXCEPT !.op = "Verify", !.ks = ks, !.issuer = issuer, !.audience = audience,
                             !.t = otv.t, !.err = otvidVerify(otv.o, ks, issuer, audience, otv.t)]]
  /\ UNCHANGED notOtv

otv_ShouldRenew ==
  /\ otv' = [otv EXCEPT
       !.res = [NoRes EXCEPT !.op = "ShouldRenew", !.t = otv.t,
                             !.renew = otvidShouldRenew(otv.o, otv.t)]]
  /\ UNCHANGED notOtv

\* the strings handed to the parsers: the object's token, and strings of
\* 63 and 64 bytes that are no JWS
ParseInputs == {otvidToken(otv.o), Garbage(63), Garbage(64)}

otv_ParseOTVID(token, ks, issuer, audience) ==
  /\ otv' = [otv EXCEPT
       !.res = [NoRes EXCEPT !.op = "ParseOTVID", !.token = token, !.ks = ks, !.issuer = issuer,
                             !.audience = audience, !.t = otv.t,
                             !.err = otvidParse(token, ks, issuer, audience, otv.t).err,
                             !.vid = otvidParse(token, ks, issuer, audience, otv.t).vid]]
  /\ UNCHANGED notOtv

otv_ParseOTVIDInsecure(token) ==
  /\ otv' = [otv EXCEPT
       !.res = [NoRes EXCEPT !.op = "ParseOTVIDInsecure", !.token = token, !.t = otv.t,
                             !.err = otvidParseInsecure(token).err,
                             !.vid = otvidParseInsecure(token).vid]]
  /\ UNCHANGED notOtv

\* OTClient.SignSelf: the OTVID it builds and signs is the object from then on
otv_SignSelf(ks) ==
  /\ otv' = [otv EXCEPT
       !.o = IF LookupSigningKeyIn(ks).err # "" THEN @ ELSE otvidSignSelf(ks, otv.t).o,
       !.res = [NoRes EXCEPT !.op = "SignSelf", !.priv = ks, !.t = otv.t,
                             !.err = otvidSignSelf(ks, otv.t).err,
                             !.out = otvidSignSelf(ks, otv.t).token]]
  /\ UNCHANGED notOtv

NextOTVID ==
  \/ otv_Tick
  \/ \E ks \in KeyLists : otv_SignSelf(ks)
  \/ \E key \in SigningKeys \cup {NoKidKey} : otv_Sign(key)
  \/ otv_ShouldRenew
  \/ \E ks \in KeySets, issuer \in Issuers, audience \in Audiences : otv_Verify(ks, issuer, audience)
  \/ \E token \in ParseInputs, ks \in KeySets, issuer \in Issuers, audience \in Audiences :
       otv_ParseOTVID(token, ks, issuer, audience)
  \/ \E token \in ParseInputs : otv_ParseOTVIDInsecure(token)
SpecOTVID == InitOTVID /\ [][NextOTVID]_vars

\* ------------------------------------------------------------ key sets
\* LookupSigningKey and LookupPublicKeys on every key set of up to MaxKeys
\* keys
otv_LookupSigningKey(ks) ==
  /\ otv' = [otv EXCEPT
       !.res = [NoRes EXCEPT !.op = "LookupSigningKey", !.priv = ks,
                             !.err = LookupSigningKeyIn(ks).err, !.key = LookupSigningKeyIn(ks).key]]
  /\ UNCHANGED notOtv

otv_LookupPublicKeys(ks) ==
  /\ otv' = [otv EXCEPT
       !.res = [NoRes EXCEPT !.op = "LookupPublicKeys", !.priv = ks, !.keys = LookupPublicKeys(ks)]]
  /\ UNCHANGED notOtv

NextKeySets ==
  \E ks \in AllKeyLists : otv_LookupSigningKey(ks) \/ otv_LookupPublicKeys(ks)
SpecKeySets == Init /\ [][NextKeySets]_vars

\* ------------------------------------------------- one OTID, in detail
\* One call of ParseOTID, NewOTID, TrustDomain.NewOTID or TrustDomain.OTID
\* followed by Validate, and for an OTID that is valid the parse of its
\* String(), or the comparison of the OTID with another.
InitOTID == InitClient /\ sel = NoSel /\ otv = NoOtv /\ rc = NoRc /\ oid \in OidInputs

oid_ParseOTID ==
  /\ oid.op = "ParseOTID" /\ ~oid.done
  /\ oid' = [oid EXCEPT !.done = TRUE, !.err = ParseOTIDString(oid.s).err,
                        !.id = ParseOTIDString(oid.s).id,
                        !.valid = OTID_validate(ParseOTIDString(oid.s).id)]
  /\ UNCHANGED notOid

oid_NewOTID ==
  /\ oid.op = "NewOTID" /\ ~oid.done
  /\ oid' = [oid EXCEPT !.done = TRUE, !.err = NewOTID(oid.td, oid.subject).err,
                        !.id = NewOTID(oid.td, oid.subject).id,
                        !.valid = OTID_validate(NewOTID(oid.td, oid.subject).id)]
  /\ UNCHANGED notOid

oid_TrustDomain_NewOTID ==
  /\ oid.op = "TrustDomain.NewOTID" /\ ~oid.done
  /\ oid' = [oid EXCEPT !.done = TRUE,
                        !.id = TrustDomain_NewOTID(oid.td, oid.subject[1], oid.subject[2]),
                        !.valid = OTID_validate(TrustDomain_NewOTID(oid.td, oid.subject[1], oid.subject[2]))]
  /\ UNCHANGED notOid

oid_TrustDomain_OTID ==
  /\ oid.op = "TrustDomain.OTID" /\ ~oid.done
  /\ oid' = [oid EXCEPT !.done = TRUE, !.id = TrustDomain_OTID(oid.td),
                        !.valid = OTID_validate(TrustDomain_OTID(oid.td))]
  /\ UNCHANGED notOid

\* ParseOTID(id.String()) for the OTID a call has produced
oid_String_ParseOTID ==
  /\ oid.done /\ ~oid.err /\ ~oid.parsed
  /\ oid' = [oid EXCEPT !.parsed = TRUE, !.back = ParseOTIDString(OTID_String(oid.id))]
  /\ UNCHANGED notOid

\* id.Equal(another) for the OTID a call has produced
oid_Equal ==
  /\ oid.done /\ ~oid.err /\ ~oid.parsed /\ ~oid.compared
  /\ \E another \in EqualPool :
       oid' = [oid EXCEPT !.compared = TRUE, !.another = another,
                          !.equal = OTID_Equal(oid.id, another)]
  /\ UNCHANGED notOid

NextOTID ==
  \/ oid_ParseOTID \/ oid_NewOTID \/ oid_TrustDomain_NewOTID \/ oid_TrustDomain_OTID
  \/ oid_String_ParseOTID \/ oid_Equal
SpecOTID == InitOTID /\ [][NextOTID]_vars


\* the trust domain's keys: discovery, static configuration and the
\* verification of OTVIDs, in a client that has no private keys (Sign stops
\* at SignSelf, so a revocation check of ParseOTVID fails before POST /sign)
NextDomain ==
  \E p \in Procs :
       \/ StartDomainResolve(p) \/ StartSetDomainKeys(p) \/ StartParseOTVID(p)
       \/ EntrySteps(p) \/ SetDomainKeysSteps(p)
       \/ ParseOTVID_resolved(p) \/ ParseOTVID_verified(p) \/ Verify_done(p) \/ Do_resolved(p)
       \/ serviceRenew_sign(p) \/ serviceRenew_parse(p)
       \/ Sign_domain(p) \/ Sign_resolved(p) \/ SignSelf_key(p) \/ Sign_post(p)
SpecDomain == Init /\ [][NextDomain]_vars

\* the keysets of the client: SetPrivateKeys and SetDomainKeys next to
\* SignSelf and the Resolve of the trust domain
NextKeys ==
  \/ TickLong
  \/ \E p \in Procs :
       \/ StartSetPrivateKeys(p) \/ StartSignSelf(p) \/ StartSetDomainKeys(p)
       \/ StartDomainResolve(p)
       \/ EntrySteps(p) \/ SetDomainKeysSteps(p) \/ SetPrivateKeys_write(p) \/ SignSelf_key(p)
SpecKeys == Init /\ [][NextKeys]_vars

\* seeding the service cache next to Resolve callers
NextSeed ==
  \/ TickShort
  \/ \E p \in Procs :
       \/ StartServiceResolve(p) \/ StartAddAudience(p) \/ StartSetPrivateKeys(p)
       \/ CacheSteps(p) \/ ServiceSteps(p) \/ AddAudienceSteps(p)
SpecSeed == Init /\ [][NextSeed]_vars

\* every operation of the client
Next ==
  \/ TickShort \/ TickLong
  \/ \E p \in Procs :
       \/ StartDomainResolve(p) \/ StartServiceResolve(p) \/ StartServiceDo(p)
       \/ StartSetPrivateKeys(p) \/ StartSetDomainKeys(p) \/ StartAddAudience(p)
       \/ StartSignSelf(p) \/ StartParseOTVID(p)
       \/ CacheSteps(p) \/ ServiceSteps(p) \/ FacadeSteps(p)
       \/ SetDomainKeysSteps(p) \/ AddAudienceSteps(p) \/ Sign_response_foreign(p)
Spec == Init /\ [][Next]_vars

\* ================================================================ claims
Renewing(p, e) ==
  \E i \in 1..Len(stack[p]) : stack[p][i].fn = renewFn(e) /\ stack[p][i].ent = e

\* C1: for every cache entry at most one caller is executing the entry's
\* renew at any instant, and a caller that takes the entry's read lock is
\* held up only by a writer, never by the readers that hold it.
C1_SingleRenewer ==
  /\ \A e \in Entries : Cardinality({p \in Procs : Renewing(p, e)}) <= 1
  /\ \A p \in Procs :
       At(p, "resolve", "rlock") /\ wl[Top(p).ent] = 0 => ENABLED resolve_RLock(p)

\* one caller renews an entry while another waits for the entry's write lock
C1_Witness ==
  \E p, q \in Procs : \E e \in Entries :
    p # q /\ Renewing(p, e) /\ At(q, "resolve", "lock") /\ Top(q).ent = e

\* the callers p and q have both returned from overlapping Resolve or Do
\* calls for the same audience
Overlapped(p, q) ==
  /\ p # q /\ Idle(p) /\ Idle(q)
  /\ call[p].op \in ServiceOps /\ call[q].op \in ServiceOps
  /\ q \in call[p].with /\ p \in call[q].with

\* the OTVID a successful Resolve or Do call obtained
ResultVid(p) ==
  IF call[p].op = "ServiceDo" THEN ParseOTVIDInsecure(ret[p].v.tok).v ELSE ret[p].v.vid

\* C2 as claimed: concurrent callers for an audience whose entry needs
\* renewal, with every request answered successfully, cause exactly one
\* POST /sign, and all succeed with the same token.
C2_Orig ==
  \A p, q \in Procs :
    Overlapped(p, q) /\ ~ghost.failed /\ call[p].signs + call[q].signs >= 1
      => /\ call[p].signs + call[q].signs = 1
         /\ ~ret[p].err /\ ~ret[q].err
         /\ ResultVid(p) = ResultVid(q)

\* C2 amended: the same, provided the OTVIDs the callers obtained still do
\* not need renewal once they have returned.
C2_SingleSign ==
  \A p, q \in Procs :
    Overlapped(p, q) /\ ~ghost.failed /\ call[p].signs + call[q].signs >= 1
      => /\ ~ret[p].err /\ ~ret[q].err
         /\ ~ShouldRenew(ResultVid(p), now) /\ ~ShouldRenew(ResultVid(q), now)
              => call[p].signs + call[q].signs = 1 /\ ResultVid(p) = ResultVid(q)

\* two overlapping callers have returned the token of the one /sign request
C2_Witness ==
  \E p, q \in Procs :
    /\ Overlapped(p, q) /\ ~ghost.failed
    /\ call[p].signs = 1 /\ call[q].signs = 0
    /\ ~ret[p].err /\ ~ret[q].err
    /\ ResultVid(p) = ResultVid(q) /\ ~ShouldRenew(ResultVid(p), now)

\* C5 as claimed: when a service renewal fails, the entry's OTVID and
\* endpoint are what resolve saw under the write lock before the renewal.
C5_Orig ==
  \A p \in Procs :
    At(p, "resolve", "renewed") /\ Top(p).ent[1] = "svc" /\ ret[p].err
      => value(Top(p).ent) = Top(p).v

\* the locks a caller holds
HeldW(p) == {e \in Entries : wl[e] = p}
HeldR(p) == {e \in Entries : p \in rl[e]}
HeldMap(p) == {c \in Caches : mapW[c] = p \/ p \in mapR[c]}
\* the caller waits for the answer to an HTTP request
InHTTP(p) ==
  \/ At(p, "domainRenew", "get_wait") \/ At(p, "Sign", "post_wait")
  \/ At(p, "SelectEndpoints", "wait") \/ At(p, "Do", "http")
RenewFrames(p) ==
  {i \in 1..Len(stack[p]) : stack[p][i].fn \in {"domainRenew", "serviceRenew"}}
\* the entry whose renew issued the caller's HTTP request
InnerRenew(p) ==
  {stack[p][i].ent : i \in {j \in RenewFrames(p) : \A k \in RenewFrames(p) : k <= j}}

\* C7 as claimed: no map lock is held during a renewal or together with an
\* entry lock, and during an HTTP call the caller holds nothing but the
\* write lock of the one entry whose renew issued the call.
C7_Orig ==
  \A p \in Procs :
    /\ RenewFrames(p) # {} => HeldMap(p) = {}
    /\ HeldMap(p) # {} => HeldW(p) \cup HeldR(p) = {}
    /\ InHTTP(p) => HeldMap(p) = {} /\ HeldR(p) = {} /\ HeldW(p) \subseteq InnerRenew(p)

\* C7 amended: during an HTTP call the caller holds only write locks of
\* entries whose renew is running on its stack: the entry whose renew
\* issued the call and, for the discovery inside a service renewal's Sign,
\* the service entry being renewed.
C7_LockDiscipline ==
  \A p \in Procs :
    /\ RenewFrames(p) # {} => HeldMap(p) = {}
    /\ HeldMap(p) # {} => HeldW(p) \cup HeldR(p) = {}
    /\ InHTTP(p) =>
         /\ HeldMap(p) = {} /\ HeldR(p) = {}
         /\ HeldW(p) = {stack[p][i].ent : i \in RenewFrames(p)}

\* a discovery request is in flight inside a service renewal
C7_Witness ==
  \E p \in Procs :
    At(p, "domainRenew", "get_wait") /\ HeldW(p) = {<<"dom", TdOTID>>, <<"svc", AudA>>}

\* the caller p takes the step
Steps(p) == stack'[p] # stack[p]

\* C3 as claimed: every snapshot Resolve reads or returns is the complete
\* state the entry had after the last completed write (construction, a
\* renewal, AddAudience, SetDomainKeys): never a mix of two writes.
C3_Orig ==
  [][\A p \in Procs :
       /\ Steps(p) /\ (At(p, "resolve", "rval") \/ At(p, "resolve", "wval"))
            => stack'[p][Len(stack'[p])].v = ghost.committed[Top(p).ent]
       /\ Steps(p) /\ At(p, "resolve", "renewed") /\ ~ret[p].err
            => ret'[p].v = ghost.committed[Top(p).ent]]_vars

DomainRenewing(p) == \E i \in 1..Len(stack[p]) : stack[p][i].fn = "domainRenew"
\* no SetDomainKeys call has begun
NoStaticKeys == ghost.static = NilKs /\ \A q \in Procs : call[q].op # "SetDomainKeys"

\* C4: a domain renewal that fails (transport, OTID mismatch, invalid keys,
\* no live endpoint) writes nothing to the entry, a renewal that has written
\* does not fail, Resolve returns the renewal's error, and the keyset,
\* endpoint and expiresAt are then what they were before the renewal.
C4_FailedDomainRenewal ==
  /\ [][\A p \in Procs :
          /\ Steps(p) /\ DomainRenewing(p) /\ dom' # dom
               => /\ Top(p).fn = "domainRenew"
                  /\ \/ At(p, "domainRenew", "w_ks")' \/ At(p, "domainRenew", "w_exp")'
                     \/ At(p, "resolve", "renewed")' /\ ~ret'[p].err
          /\ Steps(p) /\ (At(p, "domainRenew", "w_ks") \/ At(p, "domainRenew", "w_exp"))
               => ~ret'[p].err
          /\ Steps(p) /\ At(p, "resolve", "renewed") /\ ret[p].err
               => ret'[p].err /\ Len(stack'[p]) = Len(stack[p]) - 1 /\ dom' = dom]_vars
  /\ [](\A p \in Procs :
          At(p, "resolve", "renewed") /\ Top(p).ent[1] = "dom" /\ ret[p].err /\ NoStaticKeys
            => value(Top(p).ent) = Top(p).v)

\* the renewal of an expired domain entry has failed and the entry still
\* holds the keys, endpoint and expiry of the earlier discovery
C4_Witness ==
  \E p \in Procs :
    /\ At(p, "resolve", "renewed") /\ Top(p).ent[1] = "dom" /\ ret[p].err
    /\ dom[TdOTID].ks \in DiscKeys /\ dom[TdOTID].endpoint \in Endpoints
    /\ now > dom[TdOTID].expiresAt
    /\ value(Top(p).ent) = Top(p).v

\* C6 as claimed: a keyset is swapped under a write lock and read under a
\* read lock, so no caller is about to write a keyset while another is
\* about to read or write the same keyset.
C6_Orig ==
  \A p, q \in Procs :
    p # q =>
      /\ ~(/\ At(q, "SetPrivateKeys", "write")
           /\ At(p, "SignSelf", "key") \/ At(p, "SetPrivateKeys", "write"))
      /\ ~(/\ At(q, "SetDomainKeys", "w_ks")
           /\ \/ At(p, "SetDomainKeys", "w_ks") \/ At(p, "domainRenew", "w_ks")
              \/ (At(p, "resolve", "rval") \/ At(p, "resolve", "wval")) /\ Top(p).ent[1] = "dom")

\* C8: AddAudience with a token that does not parse, whose subject is not
\* the client's, or that needs renewal returns an error in that step and
\* leaves the service cache (its map and every entry) unchanged.
C8_AddAudienceRejects ==
  [][\A p \in Procs :
       /\ Steps(p) /\ At(p, "AddAudience", "parse")
       /\ \/ ~call[p].tok.wf
          \/ call[p].tok.id # Sub
          \/ now + RenewWindow > call[p].tok.exp
       => Idle(p)' /\ ret'[p].err /\ svc' = svc /\ svcMap' = svcMap]_vars

\* AddAudience has rejected the client's own OTVID because it needs renewal
C8_Witness ==
  \E p \in Procs :
    /\ Idle(p) /\ call[p].op = "AddAudience" /\ ret[p].err
    /\ call[p].tok.wf /\ call[p].tok.id = Sub /\ call[p].ep # ""
    /\ svc[AudA] = [vid |-> NilVid, endpoint |-> ""]

\* the token and endpoint of an AddAudience call that has not returned
Seeding(v) ==
  \E q \in Procs :
    /\ ~Idle(q) /\ call[q].op = "AddAudience"
    /\ v.vid = ParseOTVIDInsecure(call[q].tok).v /\ v.endpoint = call[q].ep

\* C9 as claimed: a Resolve of the audience that begins after AddAudience
\* seeded it with a non-empty endpoint, and returns while that is the last
\* completed seed and its OTVID does not need renewal, returns exactly the
\* seeded token and endpoint (or those of an AddAudience call still running)
\* and sends no request to the authority.
C9_Orig ==
  \A p \in Procs :
    /\ Idle(p) /\ call[p].op = "ServiceResolve"
    /\ call[p].seeded.endpoint # "" /\ call[p].seeded.vid.aud = call[p].key
    /\ ghost.seeded = call[p].seeded
    /\ ~ShouldRenew(call[p].seeded.vid, now)
    => /\ ~ret[p].err
       /\ \/ ret[p].v.vid = call[p].seeded.vid /\ ret[p].v.endpoint = call[p].seeded.endpoint
          \/ Seeding(ret[p].v)
       /\ call[p].signs = 0 /\ call[p].discs = 0

\* C10 as claimed: a Resolve of the own trust domain or a ParseOTVID that
\* begins after SetDomainKeys(ks) returned uses ks and sends no discovery
\* request; and a ParseOTVID that ends while the client has no keys of the
\* trust domain has failed.
C10_Orig ==
  \A p \in Procs :
    /\ Idle(p) /\ call[p].op \in {"DomainResolve", "ParseOTVID"} /\ call[p].static # NilKs
         => /\ call[p].discs = 0
            /\ ~ret[p].err /\ call[p].op = "DomainResolve" => ret[p].v.ks = call[p].static
            /\ ~ret[p].err /\ call[p].op = "ParseOTVID" => ret[p].v.by = call[p].static
    /\ Idle(p) /\ call[p].op = "ParseOTVID" /\ dom[TdOTID].ks = NilKs => ret[p].err

\* every attempt of the run has failed or was skipped
AllFailed == sel.oks = <<>> /\ \A k \in 1..Len(sel.urls) : sel.g[k] \in {"dec", "done"}
SelReturned == sel.main = "returned" /\ sel.urls # <<>>
\* the result is a URL whose GET succeeded, and the first that did
FirstSuccess ==
  /\ sel.oks # <<>> /\ sel.res.url = sel.urls[Head(sel.oks)]
  /\ HasPrefixHTTP(sel.res.url)

\* C11 as claimed: over a non-empty list SelectEndpoints returns the URL
\* whose GET succeeded first, and fails with "no valid service endpoints"
\* exactly when every attempt failed or was skipped or the context expired
\* before any success.
C11_Orig ==
  SelReturned =>
    /\ sel.res.err \in {"", "no valid service endpoints"}
    /\ sel.res.err = "" => FirstSuccess
    /\ sel.res.err # "" <=> AllFailed \/ sel.early

\* C11 amended: the same, except that SelectEndpoints may also fail when
\* the context expired after a GET succeeded but before SelectEndpoints
\* received its URL.
C11_SelectEndpoints ==
  SelReturned =>
    /\ sel.res.err \in {"", "no valid service endpoints"}
    /\ sel.res.err = "" => FirstSuccess
    /\ AllFailed \/ sel.early => sel.res.err # ""
    /\ sel.res.err # "" => AllFailed \/ sel.expired

\* two candidates answered and SelectEndpoints returned the first of them
C11_Witness ==
  /\ SelReturned /\ sel.res.err = "" /\ Len(sel.oks) = 2
  /\ sel.res.url = sel.urls[sel.oks[1]] /\ sel.urls[sel.oks[1]] # sel.urls[sel.oks[2]]

\* C12 as claimed: once SelectEndpoints has returned, the context of the
\* attempts is cancelled and no goroutine it spawned is blocked: none waits
\* in a channel send that nothing will receive.
C12_Orig ==
  sel.main = "returned" =>
    /\ sel.urls # <<>> => sel.ctx = "done"
    /\ \A k \in 1..Len(sel.urls) : sel.g[k] # "send"

\* C13 as claimed: the step of a successful domain renewal that stores the
\* expiry, taken at time now with keysRefreshHint h, stores
\* now + max(h seconds, one hour), whatever the integer h is.
C13_Orig ==
  [][\A p \in Procs :
       Steps(p) /\ At(p, "domainRenew", "w_exp")
         => LET h == Seconds(Top(p).h) IN
            dom'[Top(p).ent[2]].expiresAt = now + (IF h > Hour THEN h ELSE Hour)]_vars

\* C14 as claimed: OTVID.ShouldRenew called at time now returns true exactly
\* when now + 10 s >= Expiry: true when Expiry is exactly now + 10 s and for
\* the zero Expiry, false when Expiry is later than now + 10 s.
C14_Orig ==
  otv.res.op = "ShouldRenew" => (otv.res.renew <=> otv.res.t + Sec(10) >= otv.o.Expiry)

\* the reserved claims of a token, rid being "" when the token has none
ReservedOf(token) ==
  [n \in {"sub", "iss", "aud", "iat", "exp", "rid"} |->
     IF n \in DOMAIN token.claims THEN token.claims[n] ELSE ""]

\* C15 as claimed: reserved claims cannot be forged through the Claims map.
\* When Sign has succeeded on an OTVID, signing at the same instant an OTVID
\* with the same ID, Issuer, Audience, Expiry and ReleaseID and any other
\* Claims map yields the same sub, iss, aud, iat, exp and rid, and parsing
\* the token yields the ID, Issuer, Audience, Expiry (in whole seconds) and
\* ReleaseID of the signer.
C15_Orig ==
  otv.res.op = "Sign" /\ otv.res.err = "" =>
    /\ \A claims \in ClaimMaps :
         LET other == otvidSign([otv.res.before EXCEPT !.Claims = claims], otv.res.key, otv.res.t)
         IN other.err = "" => ReservedOf(other.token) = ReservedOf(otv.res.out)
    /\ LET parsed == otvidParseInsecure(otv.res.out) IN
       parsed.err = "" =>
         /\ parsed.vid.ID = otv.o.ID /\ parsed.vid.Issuer = otv.o.Issuer
         /\ parsed.vid.Audience = otv.o.Audience
         /\ parsed.vid.Expiry = NumericDate(otv.o.Expiry)
         /\ parsed.vid.ReleaseID = otv.o.ReleaseID

\* the object carries the token of a Sign that succeeded
Signed(o) == o.token.sig # "" /\ o.token.len <= otvidMaxSize
\* the key set holds the public key of the key that signed the object
HoldsKeyOf(ks, o) == ~ks.nil /\ publicOf(o.token.sig) \in ks.keys
\* the last call was ParseOTVID of the object's token with the object's
\* Issuer and Audience as the expected ones
ParsedOwn ==
  /\ otv.res.op = "ParseOTVID" /\ otv.res.token = otv.o.token
  /\ otv.res.issuer = otv.o.Issuer /\ otv.res.audience = otv.o.Audience
\* the rid claim the token of the object carries is a string
RidIsString(o) == "rid" \in DOMAIN o.token.claims => o.token.claims["rid"] # NonString

\* C16 as claimed: for every signed OTVID, ParseOTVID of its token with a
\* key set that holds the signer's public key, and its Issuer and Audience,
\* succeeds and returns its ID; with a key set that lacks the key ParseOTVID
\* and Verify fail.
C16_Orig ==
  /\ ParsedOwn /\ Signed(otv.o) =>
       IF HoldsKeyOf(otv.res.ks, otv.o)
         THEN otv.res.err = "" /\ otv.res.vid.ID = otv.o.ID
         ELSE otv.res.err # ""
  /\ otv.res.op = "Verify" /\ Signed(otv.o) /\ ~HoldsKeyOf(otv.res.ks, otv.o) => otv.res.err # ""

\* C16: the round trip succeeds for a signed OTVID whose ID, Issuer and
\* Audience are valid OTIDs, whose token carries no rid that is not a
\* string, and that is parsed at a time whose whole second is before the
\* whole second of its Expiry; the key set may hold further keys.  With a
\* key set that is nil or lacks the signer's public key, ParseOTVID and
\* Verify fail for every signed OTVID.
C16_RoundTrip ==
  /\ ParsedOwn /\ Signed(otv.o) =>
       IF HoldsKeyOf(otv.res.ks, otv.o)
         THEN otvidValidate(otv.o) /\ RidIsString(otv.o) /\ Unix(otv.res.t) < Unix(otv.o.Expiry)
                => otv.res.err = "" /\ otv.res.vid.ID = otv.o.ID
         ELSE otv.res.err # ""
  /\ otv.res.op = "Verify" /\ Signed(otv.o) /\ ~HoldsKeyOf(otv.res.ks, otv.o) => otv.res.err # ""

\* a token signed with k1 has been parsed with the key set of k1 and k2 and
\* the parser returned the signer's ID
C16_Witness ==
  /\ ParsedOwn /\ Signed(otv.o) /\ otv.o.token.sig = "k1"
  /\ otv.res.ks = KeySet({publicOf(k) : k \in SigningKeys})
  /\ otv.res.err = "" /\ otv.res.vid.ID = otv.o.ID /\ otv.o.ID = Sub

\* C17 as claimed: OTVID.Verify and ParseOTVID return an error whenever the
\* OTVID's Issuer differs from the expected issuer, its Audience differs from
\* the expected audience, or the current time is not strictly before its
\* Expiry, also when the signature is valid.
C17_Orig ==
  /\ otv.res.op = "Verify" /\ otv.res.err = "" =>
       /\ otv.o.Issuer = otv.res.issuer /\ otv.o.Audience = otv.res.audience
       /\ otv.res.t < otv.o.Expiry
  /\ otv.res.op = "ParseOTVID" /\ otv.res.err = "" =>
       /\ otv.res.vid.Issuer = otv.res.issuer /\ otv.res.vid.Audience = otv.res.audience
       /\ otv.res.t < otv.res.vid.Expiry

\* C18: ParseOTVID and ParseOTVIDInsecure reject a token whose length is
\* outside [64, 2048] at the length check, before the signature is verified
\* and before any claim is parsed, and they reject no other token there.
C18_LengthFirst ==
  otv.res.op \in {"ParseOTVID", "ParseOTVIDInsecure"} =>
    (otv.res.err = "length" <=> otv.res.token.len < 64 \/ otv.res.token.len > otvidMaxSize)

\* ParseOTVID was given a token of 2049 bytes with a valid signature, the
\* key set of its signer and its issuer and audience, and rejected it for
\* its length
C18_Witness ==
  /\ otv.res.op = "ParseOTVID" /\ otv.res.token.len = otvidMaxSize + 1
  /\ jwtParseVerify(otv.res.token, otv.res.ks)
  /\ otvidFromJWT(otv.res.token).err = ""
  /\ otv.res.issuer = otv.res.token.claims["iss"] /\ otv.res.audience = otv.res.token.claims["aud"][1]
  /\ otv.res.err = "length"

\* C19 as claimed: after any sequence of Sign and parse calls, also after a
\* Sign that failed because its result is longer than 2048 bytes, Token() of
\* the object and of every OTVID a parser returned is empty or of a length
\* in [64, 2048].
C19_Orig ==
  \A o \in {otv.o, otv.res.vid} :
    otvidToken(o) = NoToken \/ (otvidToken(o).len >= 64 /\ otvidToken(o).len <= otvidMaxSize)

\* the private keys with algorithm and key ID that a key list holds
UsableKeys(ks) == {ks.keys[i] : i \in DOMAIN ks.keys} \cap SigningKeys

\* C20: SignSelf fails when the client has no private key: its key list is
\* nil, empty or holds no private key.  When every key of a non-empty list
\* is a private key with algorithm and key ID, SignSelf succeeds.  Whenever
\* it succeeds, its output parses, against the public key of the private key
\* of the list that signed, with the subject as expected issuer and the
\* trust domain as expected audience, as an OTVID with sub = iss = subject,
\* aud = the OTID of the subject's trust domain, issued at the second of the
\* call and expiring ten minutes later.
C20_SignSelf ==
  otv.res.op = "SignSelf" =>
    /\ (\A i \in DOMAIN otv.res.priv.keys : ~IsPrivate(otv.res.priv.keys[i])) => otv.res.err # ""
    /\ otv.res.priv.keys # <<>> /\ (\A i \in DOMAIN otv.res.priv.keys : otv.res.priv.keys[i] \in SigningKeys)
         => otv.res.err = ""
    /\ otv.res.err = "" =>
         /\ otv.res.out = otvidToken(otv.o)
         /\ otv.res.out.sig \in UsableKeys(otv.res.priv)
         /\ LET parsed == otvidParse(otv.res.out, KeySet({publicOf(otv.res.out.sig)}), Sub, TdOTID, otv.res.t) IN
            /\ parsed.err = ""
            /\ parsed.vid.ID = Sub /\ parsed.vid.Issuer = Sub /\ parsed.vid.Audience = TdOTID
            /\ parsed.vid.IssuedAt = Truncate(otv.res.t)
            /\ parsed.vid.Expiry = parsed.vid.IssuedAt + Sec(600)

\* SignSelf has succeeded between two whole seconds with a list of two
\* private keys, and its output parses against the public key of the second
C20_Witness ==
  /\ otv.res.op = "SignSelf" /\ otv.res.err = "" /\ otv.res.priv = KeyList(<<"k1", "k2">>)
  /\ otv.res.t # Truncate(otv.res.t)
  /\ otvidParse(otv.res.out, KeySet({publicOf("k2")}), Sub, TdOTID, otv.res.t).vid.ID = Sub

\* the caller is inside oc.Verify, the call of the authority's /verify
InVerify(p) == \E i \in DOMAIN stack[p] : stack[p][i].fn = "Verify"
\* the token verifies locally against the configuration cfg at time t:
\* signed by a key of its key set, issued by the trust domain for the
\* subject of the client, not expired
LocallyValid(tok, cfg, t) ==
  /\ tok.wf /\ cfg.ks # NilKs /\ tok.key = cfg.ks
  /\ tok.iss = TdOTID /\ tok.aud = Sub /\ t < tok.exp

\* C21: when OTClient.ParseOTVID has the configuration of the trust domain,
\* it enters oc.Verify exactly when the token verifies locally against the
\* domain key set with the trust domain as issuer and the subject as
\* audience, the token carries a ReleaseID and the endpoint of the authority
\* is neither empty nor nullhost; a token that fails the local verification
\* makes ParseOTVID return an error at once; and no caller is ever inside
\* oc.Verify with a token whose ReleaseID is empty.
C21_VerifyAfterLocal ==
  /\ [][\A p \in Procs :
          Steps(p) /\ At(p, "ParseOTVID", "resolved") =>
            IF ret[p].err THEN Idle(p)' /\ ret'[p].err
            ELSE LET cfg == ret[p].v
                     tok == call[p].tok
                     local == LocallyValid(tok, cfg, now) IN
                 /\ InVerify(p)' <=> local /\ tok.rid # "" /\ cfg.endpoint \notin {"", nullhost}
                 /\ ~local => Idle(p)' /\ ret'[p].err
                 /\ local /\ ~InVerify(p)' => Idle(p)' /\ ~ret'[p].err /\ ret'[p].v.vid.id = tok.id]_vars
  /\ [](\A p \in Procs : InVerify(p) => call[p].op = "ParseOTVID" /\ call[p].tok.rid # "")

\* a caller of ParseOTVID is inside oc.Verify while another has returned a
\* token without ReleaseID that it verified locally
C21_Witness ==
  \E p, q \in Procs :
    /\ InVerify(p) /\ call[p].op = "ParseOTVID"
    /\ Idle(q) /\ call[q].op = "ParseOTVID" /\ ~ret[q].err /\ call[q].tok.rid = ""

\* C22: LookupSigningKey on a key set of n keys chooses the key at index 1
\* when n >= 2 and the key at index 0 when n = 1; it returns the chosen key
\* when that is a private key, and fails when the set is nil or empty or the
\* chosen key is not a private key, whatever the other keys are.
C22_LookupSigningKey ==
  otv.res.op = "LookupSigningKey" =>
    LET keys == otv.res.priv.keys
        n == Len(keys) IN
    IF otv.res.priv.nil \/ n = 0 THEN otv.res.err # ""
    ELSE LET chosen == IF n >= 2 THEN keys[2] ELSE keys[1] IN
         IF chosen \in PrivateKeys
           THEN otv.res.err = "" /\ otv.res.key = chosen
           ELSE otv.res.err # ""

\* LookupSigningKey has failed on a set of three keys whose key at index 1
\* is a public key while the keys at index 0 and 2 are private
C22_Witness ==
  /\ otv.res.op = "LookupSigningKey" /\ otv.res.err # ""
  /\ otv.res.priv = KeyList(<<"k1", publicOf("k1"), "k2">>)

\* C23 as claimed: for every key set, LookupPublicKeys returns a set of the
\* same length whose i-th key has the key id of the i-th key of the input,
\* and every element of it is a public key.
C23_Orig ==
  otv.res.op = "LookupPublicKeys" =>
    /\ Len(otv.res.keys.keys) = Len(otv.res.priv.keys)
    /\ \A i \in DOMAIN otv.res.keys.keys :
         /\ KeyID(otv.res.keys.keys[i]) = KeyID(otv.res.priv.keys[i])
         /\ IsPublic(otv.res.keys.keys[i])

\* the RSA and ECDSA keys of a key set, in order
Asymmetric(ks) == SelectSeq(ks.keys, LAMBDA key : IsPrivate(key) \/ IsPublic(key))

\* C23: LookupPublicKeys returns one public key for every RSA or ECDSA key
\* of the key set, in order and with the key id of that key; a key of
\* another type is left out, so the result has the length of the key set
\* and the key ids at the same indices exactly when the set holds only RSA
\* and ECDSA keys.
C23_LookupPublicKeys ==
  otv.res.op = "LookupPublicKeys" =>
    /\ ~otv.res.keys.nil
    /\ Len(otv.res.keys.keys) = Len(Asymmetric(otv.res.priv))
    /\ \A i \in DOMAIN otv.res.keys.keys :
         /\ KeyID(otv.res.keys.keys[i]) = KeyID(Asymmetric(otv.res.priv)[i])
         /\ IsPublic(otv.res.keys.keys[i]) /\ ~IsPrivate(otv.res.keys.keys[i])
    /\ Len(otv.res.keys.keys) = Len(otv.res.priv.keys) <=> Asymmetric(otv.res.priv) = otv.res.priv.keys

\* LookupPublicKeys was given a private key, a symmetric key and another
\* private key and has returned the public keys of the two private keys
C23_Witness ==
  /\ otv.res.op = "LookupPublicKeys"
  /\ otv.res.priv = KeyList(<<"k1", SymKey, "k2">>)
  /\ otv.res.keys = KeyList(<<publicOf("k1"), publicOf("k2")>>)

\* C24: for every OTID o that a constructor or the parser has produced and
\* for which Validate succeeds, ParseOTID(o.String()) succeeds and returns an
\* OTID Equal to o with the same trust domain, subject type and subject ID.
C24_RoundTrip ==
  oid.parsed /\ oid.valid =>
    /\ ~oid.back.err
    /\ OTID_Equal(oid.back.id, oid.id)
    /\ oid.back.id.trustDomain = oid.id.trustDomain
    /\ oid.back.id.subjectType = oid.id.subjectType
    /\ oid.back.id.subjectID = oid.id.subjectID

\* the string of a valid OTID with a subject, made by TrustDomain.NewOTID,
\* has been parsed and gave the same subject
C24_Witness ==
  /\ oid.parsed /\ oid.valid /\ oid.op = "TrustDomain.NewOTID" /\ ~oid.back.err
  /\ oid.id.subjectType # <<>> /\ oid.back.id.subjectID = oid.id.subjectID


\* a segment of the OTID grammar: non-empty, only [a-z0-9._-], not starting
\* with '.', '-' or '_'
Segment(seg) ==
  /\ seg # <<>>
  /\ \A i \in DOMAIN seg : seg[i] \in Lower \cup Digits \cup {".", "-", "_"}
  /\ seg[1] \notin {".", "-", "_"}
\* otid:<td> or otid:<td>:<type>:<id> with well-formed segments
WellFormed(s) ==
  /\ Len(Split(s)) \in {2, 4}
  /\ Split(s)[1] = <<"o", "t", "i", "d">>
  /\ \A k \in 2..Len(Split(s)) : Segment(Split(s)[k])

\* C25: ParseOTID(s) succeeds only for strings otid:<td> or
\* otid:<td>:<type>:<id> whose segments are all non-empty, made of [a-z0-9._-]
\* and not starting with '.', '-' or '_'; every other string fails.
C25_ParseGrammar ==
  oid.op = "ParseOTID" /\ oid.done /\ ~oid.err => WellFormed(oid.s)

\* ParseOTID has accepted a string with a subject, otid:<td>:<type>:<id>,
\* whose subject ID holds '.', '-' and '_' after its first rune
C25_Witness ==
  /\ oid.op = "ParseOTID" /\ oid.done /\ ~oid.err
  /\ Len(Split(oid.s)) = 4
  /\ "_" \in {Split(oid.s)[4][i] : i \in DOMAIN Split(oid.s)[4]}
  /\ oid.id.subjectID = Split(oid.s)[4]


\* the full string otid:<td>[:<type>:<id>] of the OTID a call was asked to
\* make, and whether its segments are well formed
Requested ==
  CASE oid.op = "ParseOTID" -> oid.s
    [] oid.op = "TrustDomain.OTID" -> OTID_build(oid.td, <<>>, <<>>)
    [] oid.op = "TrustDomain.NewOTID" -> OTID_build(oid.td, oid.subject[1], oid.subject[2])
    [] oid.op = "NewOTID" /\ Len(oid.subject) = 2 -> OTID_build(oid.td, oid.subject[1], oid.subject[2])
    [] OTHER -> OTID_build(oid.td, <<>>, <<>>)
RequestedWellFormed ==
  /\ WellFormed(Requested)
  /\ oid.op = "NewOTID" => Len(oid.subject) = 0 \/ (Len(oid.subject) = 2 /\ oid.subject[1] # <<>>)
  /\ oid.op = "TrustDomain.NewOTID" => (oid.subject[1] = <<>> => oid.subject[2] = <<>>)

Components(id) == ByteLen(id.trustDomain) + ByteLen(id.subjectType) + ByteLen(id.subjectID)

\* C27: an OTID with well-formed segments whose trust domain, subject type
\* and subject ID total at most 1016 bytes validates (for example localhost,
\* user and an ID of 1000 characters), and one whose components total 1024
\* bytes or more is rejected.
C27_Orig ==
  oid.done /\ oid.op = "TrustDomain.NewOTID" /\ RequestedWellFormed =>
    /\ Components(oid.id) <= 1016 => oid.valid
    /\ Components(oid.id) >= 1024 => ~oid.valid


\* exactly one of the two subject fields handed to a call is empty
OneEmpty == Len(oid.subject) = 2 /\ ((oid.subject[1] = <<>>) # (oid.subject[2] = <<>>))

\* C28: every OTID that validates has both subject fields non-empty or both
\* empty; td.NewOTID("", "") of a valid trust domain validates and renders as
\* otid:<td>; td.NewOTID with exactly one empty field fails Validate, and
\* NewOTID(td, type, id) fails when exactly one of type and id is empty.
C28_SubjectPair ==
  oid.done =>
    /\ oid.valid => ((oid.id.subjectType = <<>>) <=> (oid.id.subjectID = <<>>))
    /\ oid.op = "TrustDomain.NewOTID" /\ oid.subject = <<<<>>, <<>>>> /\ Segment(oid.td) =>
         oid.valid /\ OTID_String(oid.id) = <<"o", "t", "i", "d", ":">> \o oid.td
    /\ oid.op = "TrustDomain.NewOTID" /\ OneEmpty => ~oid.valid
    /\ oid.op = "NewOTID" /\ OneEmpty => oid.err

\* td.NewOTID("", "") of a valid trust domain has been validated, and its
\* string has been parsed back as a domain OTID
C28_Witness ==
  /\ oid.op = "TrustDomain.NewOTID" /\ oid.subject = <<<<>>, <<>>>> /\ oid.td = localhost
  /\ oid.valid /\ oid.parsed /\ oid.back.id.subjectType = <<>>


\* ------------------------------------ RefreshConfig and its background loop
InitRefresh ==
  /\ InitClient /\ sel = NoSel /\ otv = NoOtv /\ oid = NoOid
  /\ \E cb \in BOOLEAN : rc = [NoRc EXCEPT !.onError = cb]

SetTh(t, f) == [rc EXCEPT !.th[t] = f]
Return(t) == SetTh(t, NoThread)

\* the goroutines that hold mu and are about to assign the fields
Writers(t) == {u \in Threads \ {t} : rc.th[u].pc = "LoadConfig_write"}
\* a read of ot.serviceEndpoint or ot.refresh made without mu: the field's
\* value, or, while another goroutine assigns the field, any of the old value,
\* the new value and a torn one
readServiceEndpoint(t) ==
  {rc.serviceEndpoint} \cup UNION {{rc.th[u].sp, Torn} : u \in Writers(t)}
readRefresh(t) ==
  {rc.refresh} \cup {LoadConfig_assign(rc, rc.th[u]).refresh : u \in Writers(t)}

\* the lifetime context is cancelled
rc_Cancel ==
  /\ ~rc.cancelled
  /\ rc' = [rc EXCEPT !.cancelled = TRUE]
  /\ UNCHANGED notRc

\* the ticker of the loop fires while the loop waits in select
rc_Tick ==
  /\ rc.th["loop"].pc = "select" /\ ~rc.ticked /\ ~rc.cancelled
  /\ rc' = [rc EXCEPT !.ticked = TRUE]
  /\ UNCHANGED notRc

rc_RefreshConfig ==
  /\ rc.th["fg"].pc = "idle" /\ rc.th["loop"].pc = "none"
  /\ rc' = SetTh("fg", [NoThread EXCEPT !.pc = "LoadConfig_Get", !.op = "RefreshConfig"])
  /\ UNCHANGED notRc

rc_LoadConfig ==
  /\ rc.th["fg"].pc = "idle"
  /\ rc' = SetTh("fg", [NoThread EXCEPT !.pc = "LoadConfig_Get", !.op = "LoadConfig"])
  /\ UNCHANGED notRc

rc_LoadConfig_Get(t) ==
  /\ rc.th[t].pc = "LoadConfig_Get"
  /\ \/ rc' = SetTh(t, [rc.th[t] EXCEPT !.pc = "LoadConfig_return", !.err = "get"])
     \/ /\ ~rc.cancelled
        /\ \E r \in ConfigResponses : rc' = SetTh(t, LoadConfig_parsed(rc.th[t], r))
  /\ UNCHANGED notRc

rc_LoadConfig_SelectEndpoints(t) ==
  /\ rc.th[t].pc = "LoadConfig_SelectEndpoints"
  /\ \/ rc' = SetTh(t, [rc.th[t] EXCEPT !.pc = "LoadConfig_return", !.err = "endpoints"])
     \/ /\ ~rc.cancelled
        /\ \E i \in DOMAIN rc.th[t].res.eps :
             rc' = SetTh(t, [rc.th[t] EXCEPT !.pc = "LoadConfig_Lock", !.sp = rc.th[t].res.eps[i],
                                             !.res.eps = <<>>])
  /\ UNCHANGED notRc

rc_LoadConfig_Lock(t) ==
  /\ rc.th[t].pc = "LoadConfig_Lock"
  /\ rc.writer = "" /\ ~rc.reading
  /\ rc' = [rc EXCEPT !.writer = t, !.th[t].pc = "LoadConfig_write"]
  /\ UNCHANGED notRc

rc_LoadConfig_write(t) ==
  /\ rc.th[t].pc = "LoadConfig_write"
  /\ rc' = [LoadConfig_assign(rc, rc.th[t]) EXCEPT
              !.writer = "", !.th[t] = [NoThread EXCEPT !.pc = "LoadConfig_return", !.op = rc.th[t].op]]
  /\ UNCHANGED notRc

\* LoadConfig returns to RefreshConfig, which starts the loop when it
\* succeeded, or to the caller
rc_RefreshConfig_return ==
  /\ rc.th["fg"].pc = "LoadConfig_return"
  /\ rc' = [Return("fg") EXCEPT
              !.th["loop"].pc = IF rc.th["fg"].op = "RefreshConfig" /\ rc.th["fg"].err = ""
                                THEN "NewTicker" ELSE @]
  /\ UNCHANGED notRc

rc_loop_NewTicker ==
  /\ rc.th["loop"].pc = "NewTicker"
  /\ \E d \in readRefresh("loop") :
       rc' = [rc EXCEPT !.period = d, !.ticked = FALSE, !.delivered = "",
                        !.th["loop"] = [NoThread EXCEPT !.pc = "select", !.op = "waitAndLoadConfig"]]
  /\ UNCHANGED notRc

rc_loop_Done ==
  /\ rc.th["loop"].pc = "select" /\ rc.cancelled
  /\ rc' = [rc EXCEPT !.ticked = FALSE, !.period = 0, !.th["loop"].pc = "done"]
  /\ UNCHANGED notRc

\* the ticker has fired; op records whether the context was cancelled before
\* this refresh began
rc_loop_ticked ==
  /\ rc.th["loop"].pc = "select" /\ rc.ticked
  /\ rc' = [rc EXCEPT !.ticked = FALSE, !.period = 0, !.th["loop"].pc = "LoadConfig_Get",
                      !.th["loop"].op = IF rc.cancelled THEN "waitAndLoadConfig after Done"
                                        ELSE "waitAndLoadConfig"]
  /\ UNCHANGED notRc

rc_loop_return ==
  /\ rc.th["loop"].pc = "LoadConfig_return"
  /\ rc' = [rc EXCEPT !.th["loop"].pc = afterRefresh(rc.th["loop"].err, rc.onError)]
  /\ UNCHANGED notRc

rc_loop_onError ==
  /\ rc.th["loop"].pc = "onError"
  /\ rc' = [rc EXCEPT !.delivered = rc.th["loop"].err, !.th["loop"].pc = "NewTicker"]
  /\ UNCHANGED notRc

\* Sign, and Get and Post, which check the endpoint and go on with GetToken
rc_Sign ==
  /\ rc.th["fg"].pc = "idle"
  /\ rc' = SetTh("fg", [NoThread EXCEPT !.pc = "Sign_check", !.op = "Sign"])
  /\ UNCHANGED notRc

rc_Get(op) ==
  /\ rc.th["fg"].pc = "idle"
  /\ rc' = SetTh("fg", [NoThread EXCEPT !.pc = "Get_check", !.op = op])
  /\ UNCHANGED notRc

rc_Get_check ==
  /\ rc.th["fg"].pc = "Get_check"
  /\ \E v \in readServiceEndpoint("fg") :
       rc' = IF v = "" THEN Return("fg")
             ELSE SetTh("fg", [rc.th["fg"] EXCEPT !.pc = "GetToken", !.seen = v])
  /\ UNCHANGED notRc

\* GetToken reads the cache under RLock: a cached token that need not be
\* renewed is returned, any other case goes to Sign
rc_GetToken ==
  /\ rc.th["fg"].pc = "GetToken"
  /\ rc.writer = ""
  /\ \/ rc.cached /\ rc' = SetTh("fg", [rc.th["fg"] EXCEPT !.pc = "Get_do", !.seen = ""])
     \/ rc' = SetTh("fg", [rc.th["fg"] EXCEPT !.pc = "Sign_check", !.seen = ""])
  /\ UNCHANGED notRc

rc_Sign_check ==
  /\ rc.th["fg"].pc = "Sign_check"
  /\ \E v \in readServiceEndpoint("fg"), signed \in BOOLEAN :
       rc' = IF v = "" \/ ~signed THEN Return("fg")
             ELSE SetTh("fg", [rc.th["fg"] EXCEPT !.pc = "Sign_post", !.seen = v])
  /\ UNCHANGED notRc

rc_Sign_post ==
  /\ rc.th["fg"].pc = "Sign_post"
  /\ \E v \in readServiceEndpoint("fg"), ok \in BOOLEAN :
       rc' = IF rc.th["fg"].op = "Sign" \/ ~ok THEN Return("fg")
             ELSE SetTh("fg", [rc.th["fg"] EXCEPT !.pc = "cache_Lock", !.seen = ""])
  /\ UNCHANGED notRc

rc_cache_Lock ==
  /\ rc.th["fg"].pc = "cache_Lock"
  /\ rc.writer = "" /\ ~rc.reading
  /\ rc' = [rc EXCEPT !.writer = "fg", !.th["fg"].pc = "cache_write"]
  /\ UNCHANGED notRc

rc_cache_write ==
  /\ rc.th["fg"].pc = "cache_write"
  /\ rc' = [rc EXCEPT !.cached = TRUE, !.writer = "", !.th["fg"].pc = "Get_do"]
  /\ UNCHANGED notRc

rc_Get_do ==
  /\ rc.th["fg"].pc = "Get_do"
  /\ \E v \in readServiceEndpoint("fg") : rc' = Return("fg")
  /\ UNCHANGED notRc

\* ParseOTVID: Config() under RLock, the local check, then Verify, which
\* posts to the service endpoint
rc_ParseOTVID ==
  /\ rc.th["fg"].pc = "idle"
  /\ rc' = SetTh("fg", [NoThread EXCEPT !.pc = "Config_RLock", !.op = "ParseOTVID"])
  /\ UNCHANGED notRc

rc_Config_RLock ==
  /\ rc.th["fg"].pc = "Config_RLock"
  /\ rc.writer = ""
  /\ rc' = [rc EXCEPT !.reading = TRUE, !.th["fg"].pc = "Config_read"]
  /\ UNCHANGED notRc

rc_Config_read ==
  /\ rc.th["fg"].pc = "Config_read"
  /\ \E outcome \in {"err", "ok", "revoked"} :
       /\ rc.domainKs = "nil" => outcome = "err"
       /\ rc' = [(IF outcome = "revoked" /\ rc.serviceEndpoint # ""
                  THEN SetTh("fg", [rc.th["fg"] EXCEPT !.pc = "Get_check"])
                  ELSE Return("fg")) EXCEPT !.reading = FALSE]
  /\ UNCHANGED notRc

LoopSteps ==
  \/ rc_LoadConfig_Get("loop") \/ rc_LoadConfig_SelectEndpoints("loop")
  \/ rc_LoadConfig_write("loop")
  \/ rc_loop_NewTicker \/ rc_loop_Done \/ rc_loop_ticked \/ rc_loop_return \/ rc_loop_onError
ForegroundSteps ==
  \/ rc_LoadConfig_Get("fg") \/ rc_LoadConfig_SelectEndpoints("fg") \/ rc_LoadConfig_Lock("fg")
  \/ rc_LoadConfig_write("fg") \/ rc_RefreshConfig_return
  \/ rc_Get_check \/ rc_GetToken \/ rc_Sign_check \/ rc_Sign_post \/ rc_cache_Lock \/ rc_cache_write
  \/ rc_Get_do \/ rc_Config_RLock \/ rc_Config_read
NextRefresh ==
  \/ rc_Cancel \/ rc_Tick
  \/ rc_RefreshConfig \/ rc_LoadConfig \/ rc_Sign \/ rc_Get("Get") \/ rc_Get("Post") \/ rc_ParseOTVID
  \/ ForegroundSteps
  \/ LoopSteps \/ rc_LoadConfig_Lock("loop")
SpecRefresh == InitRefresh /\ [][NextRefresh]_vars
\* every goroutine that can take a step takes one, and a goroutine that waits
\* for mu gets it
SpecRefreshFair ==
  /\ SpecRefresh
  /\ WF_vars(LoopSteps) /\ WF_vars(ForegroundSteps) /\ SF_vars(rc_LoadConfig_Lock("loop"))


\* goroutine t is about to read ot.serviceEndpoint or ot.refresh without
\* holding mu
ReadsUnlocked(t) ==
  \/ t = "fg" /\ rc.th[t].pc \in {"Sign_check", "Sign_post", "Get_check", "Get_do"}
  \/ t = "loop" /\ rc.th[t].pc = "NewTicker"

\* C30: while the refresh loop runs, no read of a field that a refresh writes
\* (service endpoint, domain keyset, refresh interval) by Sign, Get, Post,
\* ParseOTVID or the loop is concurrent with an unsynchronized write of it:
\* whenever a goroutine is about to read such a field, the loop is not in the
\* middle of assigning it.
C30_Orig ==
  \A t \in Threads : ReadsUnlocked(t) => "loop" \notin Writers(t)


\* what the loop does with the result of a refresh: an error goes to the
\* callback when one is set, and in every case the next ticker is made
LoopContinues ==
  /\ rc.th["loop"].pc = "LoadConfig_return" /\ rc'.th["loop"].pc # "LoadConfig_return" =>
       rc'.th["loop"].pc = IF rc.th["loop"].err # "" /\ rc.onError THEN "onError" ELSE "NewTicker"
  /\ rc.th["loop"].pc = "onError" /\ rc'.th["loop"].pc # "onError" =>
       rc'.th["loop"].pc = "NewTicker" /\ rc'.delivered = rc.th["loop"].err
\* before the next ticker is made the callback has got the error of a failed
\* refresh, without a callback nothing is delivered, and the loop ends only
\* when the context is cancelled
Delivered ==
  /\ rc.th["loop"].pc = "NewTicker" /\ rc.th["loop"].err # "" /\ rc.onError =>
       rc.delivered = rc.th["loop"].err
  /\ ~rc.onError => rc.delivered = ""
  /\ rc.th["loop"].pc = "done" => rc.cancelled
\* a refresh that the loop begins after the cancellation fails at its request
\* and assigns nothing
NoLateRefresh ==
  rc.th["loop"].op = "waitAndLoadConfig after Done" =>
    /\ rc.th["loop"].pc \in {"LoadConfig_Get", "LoadConfig_return", "onError", "NewTicker"}
    /\ rc.th["loop"].pc # "LoadConfig_Get" => rc.th["loop"].err = "get"

Returns(p, fn) == ~Idle(p) /\ Top(p).fn = fn /\ Len(stack'[p]) = Len(stack[p]) - 1

\* C31: when the authority answers POST /sign with transport success and an
\* envelope that carries an error and no result (it decodes into an empty
\* SignOutput), OTClient.Sign returns an error: a Sign that returns without
\* error returns the OTVID of a result.
C31_Orig ==
  [][\A p \in Procs :
       Returns(p, "Sign") /\ Top(p).pc = "post_wait" =>
         ret'[p].err \/ ret'[p].v.tok # EmptyToken]_vars


\* what the entry e needs renewal means: a domain entry has no endpoint, no
\* keyset, or is past expiresAt; a service entry has no endpoint, no OTVID,
\* or an OTVID within the renewal window
NeedsRenewal(e) ==
  IF e[1] = "dom"
    THEN dom[e[2]].endpoint = "" \/ dom[e[2]].ks = NilKs \/ now > dom[e[2]].expiresAt
    ELSE svc[e[2]].endpoint = "" \/ svc[e[2]].vid = NilVid
           \/ now + RenewWindow > svc[e[2]].vid.exp

\* C32: a Resolve on an entry starts the entry's renew only while it holds
\* the entry's write lock and the entry needs renewal at that moment; a
\* Resolve that returns without having renewed does so only when the entry
\* does not need renewal, and returns the entry's current value; a request
\* to the authority is sent only by a caller that is renewing an entry.
C32_RenewWhenNeeded ==
  [][/\ \A p \in Procs : \A e \in Entries :
          ~Renewing(p, e) /\ Renewing(p, e)' =>
            /\ Top(p).fn = "resolve" /\ Top(p).ent = e
            /\ wl[e] = p /\ NeedsRenewal(e)
     /\ \A p \in Procs :
          Returns(p, "resolve") /\ Top(p).pc # "renewed" =>
            /\ ~NeedsRenewal(Top(p).ent)
            /\ ret'[p] = Ok(value(Top(p).ent))
     /\ signReqs' # signReqs \/ discReqs' # discReqs =>
          \E p \in Procs : \E e \in Entries : Renewing(p, e)]_vars

\* one caller has found under the write lock that the entry was renewed
\* meanwhile and returns without renewing, another has started a renewal
C32_Witness ==
  /\ \E p \in Procs : At(p, "resolve", "wchk") /\ ~NeedsRenewal(Top(p).ent)
                        /\ call[p].signs = 0 /\ call[p].discs = 0
  /\ signReqs[AudA] + discReqs >= 1


\* renewals of the trust domain's entry and of service entries, with the
\* clock advancing within an OTVID's lifetime or past the lifetime of the
\* domain configuration
NextRenew ==
  \/ TickShort \/ TickLong
  \/ \E p \in Procs :
       \/ StartDomainResolve(p) \/ StartServiceResolve(p) \/ StartSetPrivateKeys(p)
       \/ CacheSteps(p) \/ ServiceSteps(p)
SpecRenew == Init /\ [][NextRenew]_vars

\* the frame of SelectEndpoints that a step of p pushes
Selects(p) ==
  /\ Len(stack'[p]) = Len(stack[p]) + 1
  /\ stack'[p][Len(stack'[p])].fn = "SelectEndpoints"

\* C33: a renewal whose response advertises the list E runs the endpoint
\* selector exactly when the entry's endpoint is empty or not in E; without
\* a selection it leaves the endpoint as it is, a member of E; the selector
\* runs against E, its winner is a member of E, and the renewal stores the
\* winner; the rest of the renewal does not touch the endpoint.
C33_AdoptWinner ==
  [][\A p \in Procs :
       /\ At(p, "domainRenew", "get_wait") /\ stack'[p] # stack[p]
            /\ Len(stack'[p]) >= Len(stack[p]) =>
            LET k == Top(p).ent[2]
                E == stack'[p][Len(stack'[p])].E IN
            /\ Selects(p) <=> dom[k].endpoint = "" \/ dom[k].endpoint \notin E
            /\ dom'[k].endpoint = dom[k].endpoint
       /\ At(p, "serviceRenew", "signed") /\ stack'[p] # stack[p]
            /\ ~ret[p].err /\ ret[p].v.tok.wf =>
            LET k == Top(p).ent[2]
                E == ret[p].v.E IN
            /\ Selects(p) <=> svc[k].endpoint = "" \/ svc[k].endpoint \notin E
            /\ Selects(p) => stack'[p][Len(stack'[p])].E = E
            /\ ~Selects(p) => Returns(p, "serviceRenew") /\ ~ret'[p].err
            /\ svc'[k].endpoint = svc[k].endpoint
       /\ Returns(p, "SelectEndpoints") /\ ~ret'[p].err => ret'[p].v.endpoint \in Top(p).E
       /\ At(p, "domainRenew", "selected") /\ stack'[p] # stack[p] /\ ~ret[p].err =>
            dom'[Top(p).ent[2]].endpoint = ret[p].v.endpoint
       /\ At(p, "serviceRenew", "selected") /\ stack'[p] # stack[p] /\ ~ret[p].err =>
            /\ svc'[Top(p).ent[2]].endpoint = ret[p].v.endpoint
            /\ Returns(p, "serviceRenew") /\ ~ret'[p].err
       /\ (At(p, "domainRenew", "w_ks") \/ At(p, "domainRenew", "w_exp")) =>
            dom'[Top(p).ent[2]].endpoint = dom[Top(p).ent[2]].endpoint]_vars

\* a renewal of the trust domain's entry has found the entry's endpoint in
\* the advertised list and goes on without a selection
C33_Witness ==
  \E p \in Procs :
    /\ At(p, "domainRenew", "w_ks") /\ Top(p).E # {}
    /\ dom[TdOTID].endpoint \in Top(p).E


\* the caller p takes a step
Moves(p) == stack'[p] # stack[p]

\* C34: a POST /sign for the audience a is sent only by a Sign for a that
\* has resolved the trust domain's entry without error, to a configuration
\* with an endpoint, and whose SignSelf has just returned a self-signed
\* OTVID that is not expired, which the request carries; a Sign whose
\* resolution or SignSelf fails returns the error and sends no request.
C34_SignAfterResolve ==
  [][\A p \in Procs :
       /\ \A a \in SvcKeys :
            Moves(p) /\ signReqs'[a] # signReqs[a] =>
              /\ At(p, "Sign", "signed") /\ Top(p).ent[2] = a
              /\ Top(p).v.endpoint # ""
              /\ ~ret[p].err
              /\ ret[p].v.tok.wf /\ ret[p].v.tok.iss = Sub /\ ret[p].v.tok.id = Sub
              /\ ret[p].v.tok.aud = TdOTID /\ ret[p].v.tok.exp > now
              /\ At(p, "Sign", "post_wait")' /\ Top(p)'.tok = ret[p].v.tok
              /\ signReqs'[a] = signReqs[a] + 1
       /\ Moves(p) /\ (At(p, "Sign", "resolved") \/ At(p, "Sign", "signed")) /\ ret[p].err =>
            /\ Returns(p, "Sign") /\ ret'[p].err
            /\ signReqs' = signReqs]_vars

\* a Sign has sent its request after the trust domain was discovered and
\* SignSelf succeeded, and waits for the answer
C34_Witness ==
  \E p \in Procs :
    /\ At(p, "Sign", "post_wait") /\ Top(p).tok = selfToken(now)
    /\ Top(p).v.endpoint # "" /\ discReqs >= 1
    /\ signReqs[Top(p).ent[2]] = 1


\* C35: when Service(A).Resolve returns without error, the configuration it
\* returns has an endpoint and an OTVID, and the OTVID does not need renewal
\* at the moment of the return.
C35_Orig ==
  [][\A p \in Procs :
       Returns(p, "resolve") /\ Len(stack[p]) = 1 /\ call[p].op = "ServiceResolve"
         /\ ~ret'[p].err =>
           /\ ret'[p].v.endpoint # ""
           /\ ret'[p].v.vid # NilVid
           /\ ~ShouldRenew(ret'[p].v.vid, now)]_vars


\* renewals and requests to a service, with an authority that may answer
\* POST /sign with an OTVID for another subject or audience
NextForeign ==
  \E p \in Procs :
       \/ StartServiceResolve(p) \/ StartServiceDo(p) \/ StartSetPrivateKeys(p)
       \/ CacheSteps(p) \/ ServiceSteps(p)
       \/ Do_resolved(p) \/ Do_response(p) \/ Sign_response_foreign(p)
SpecForeign == Init /\ [][NextForeign]_vars

\* C36: every service cache entry that holds an OTVID holds one whose
\* audience is the entry's key and whose subject is the client's, and the
\* bearer token of a request to the service A is such an OTVID for A.
C36_Orig ==
  /\ \A k \in SvcKeys :
       svc[k].vid # NilVid => svc[k].vid.aud = k /\ svc[k].vid.id = Sub
  /\ \A p \in Procs :
       At(p, "Do", "http") => Top(p).tok.aud = Top(p).ent[2] /\ Top(p).tok.id = Sub


\* the steps of a call that is under way, the answers to its HTTP requests
\* included
CallSteps(p) == CacheSteps(p) \/ ServiceSteps(p) \/ FacadeSteps(p)

\* one call of Resolve, Do, ParseOTVID or SetPrivateKeys by each of the
\* concurrent callers, each of whose steps is
\* taken eventually when it stays possible: goroutines are scheduled and
\* every HTTP request is answered
NextCalls ==
  \E p \in Procs :
       \/ call[p].op = "none" /\ StartDomainResolve(p)
       \/ call[p].op = "none" /\ StartServiceResolve(p)
       \/ call[p].op = "none" /\ StartServiceDo(p)
       \/ call[p].op = "none" /\ StartParseOTVID(p)
       \/ call[p].op = "none" /\ StartSetPrivateKeys(p)
       \/ CallSteps(p)
SpecCalls == Init /\ [][NextCalls]_vars /\ \A p \in Procs : WF_vars(CallSteps(p))


\* the caller p acquires the lock of the entry e in this step
Acquires(p, e) == (wl'[e] = p /\ wl[e] # p) \/ (p \in rl'[e] /\ p \notin rl[e])

\* a caller that acquires a service entry's lock holds no entry lock, one
\* that acquires the domain entry's lock holds at most write locks of
\* service entries, and neither holds a map lock
LockOrder ==
  \A p \in Procs : \A e \in Entries :
    Acquires(p, e) =>
      /\ HeldMap(p) = {} /\ HeldR(p) = {}
      /\ \A h \in HeldW(p) : h[1] = "svc" /\ e[1] = "dom"

\* resolve returns, with or without error, holding no lock of its entry
Released ==
  \A p \in Procs :
    Returns(p, "resolve") => wl'[Top(p).ent] # p /\ p \notin rl'[Top(p).ent]

\* an entry whose renewal fails needs renewal, and an entry that needs
\* renewal needs it until a caller renews it
Retried ==
  \A p \in Procs : \A e \in Entries :
    /\ Returns(p, renewFn(e)) /\ Top(p).ent = e /\ ret'[p].err => shouldRenew(e)'
    /\ shouldRenew(e) /\ (\A q \in Procs : ~Renewing(q, e) /\ ~Renewing(q, e)') => shouldRenew(e)'

\* C37: concurrent calls never deadlock: entry locks are nested only in the
\* order service entry, then domain entry; Resolve releases its lock when
\* it returns, with or without error; every call that is under way returns
\* when every HTTP request is answered; and a Resolve after a failed
\* renewal finds the entry in need of renewal, so it renews again.
C37_NoDeadlock ==
  /\ [][LockOrder]_vars
  /\ [][Released]_vars
  /\ [][Retried]_vars
  /\ \A p \in Procs : ~Idle(p) ~> Idle(p)

\* a caller holds a service entry's and the domain entry's write lock while
\* the discovery request of its Sign is in flight, and another caller waits
\* for the domain entry's lock
C37_Witness ==
  \E p, q \in Procs :
    /\ p # q
    /\ At(p, "domainRenew", "get_wait")
    /\ HeldW(p) = {<<"svc", AudA>>, <<"dom", TdOTID>>}
    /\ At(q, "resolve", "lock") /\ Top(q).ent = <<"dom", TdOTID>>


\* C38: the factory of the service cache is invoked at most once for a
\* key, and only for a key it then stores; a key is never removed from the
\* map; the entry of a key that is in the map is never replaced by a Get;
\* and every Get returns with its key in the map, so all Gets of a key
\* return the one entry made for it.
C38_OneEntry ==
  /\ [](\A k \in SvcKeys : ghost.made[k] <= 1 /\ (ghost.made[k] = 1 => k \in svcMap))
  /\ [][/\ svcMap \subseteq svcMap'
        /\ \A k \in SvcKeys : ghost.made'[k] >= ghost.made[k]
        /\ \A p \in Procs :
             /\ Returns(p, "Get") => present(Top(p).ent[1], Top(p).ent[2])'
             /\ Moves(p) /\ ~Idle(p) /\ Top(p).fn = "Get" /\ Top(p).ent[2] \in svcMap
                  => svc' = svc]_vars

\* a caller that missed the key under the read lock holds the write lock
\* and finds the entry another caller has made meanwhile
C38_Witness ==
  \E p \in Procs :
    /\ At(p, "Get", "create") /\ Top(p).ent = <<"svc", AudA>>
    /\ AudA \in svcMap /\ ghost.made[AudA] = 1


\* C39: an OTID is Equal to another exactly when the two have the same
\* trust domain, the same subject type and the same subject ID; an OTID
\* that fails Validate is not Equal to one that passes.
C39_Orig ==
  oid.compared =>
    /\ oid.equal <=> /\ oid.id.trustDomain = oid.another.trustDomain
                     /\ oid.id.subjectType = oid.another.subjectType
                     /\ oid.id.subjectID = oid.another.subjectID
    /\ oid.valid # OTID_validate(oid.another) => ~oid.equal

====
